---- MODULE Spec2Model ----
(***************************************************************************)
(* Model of the framer codec (code.hybscloud.com/framer): the stream wire  *)
(* format, the resumable read and write state machines of the framer, and  *)
(* the boundary-preserving Forwarder.                                      *)
(*                                                                         *)
(* Byte sequences are TLA+ sequences over 0..255; Go index i is TLA+ index *)
(* i+1.  A 64-bit unsigned value is a sequence of 8 base-256 digits, least *)
(* significant first, so that lengths up to 2^56-1 and beyond are exact.   *)
(***************************************************************************)
EXTENDS Integers, Sequences, FiniteSets, TLC

\* ---------------------------------------------------------------- constants

frameHeaderLen == 1
framePayloadMaxLen8Bits == 253
framePayloadMaxLen16 == 65535

BinaryStream == 1
SeqPacket == 2
Datagram == 3

BigEndian == "BigEndian"
LittleEndian == "LittleEndian"
ByteOrders == {BigEndian, LittleEndian}

Nil == "nil"
EOF == "io.EOF"
ErrUnexpectedEOF == "io.ErrUnexpectedEOF"
ErrShortBuffer == "io.ErrShortBuffer"
ErrShortWrite == "io.ErrShortWrite"
ErrNoProgress == "io.ErrNoProgress"
ErrWouldBlock == "ErrWouldBlock"
ErrMore == "ErrMore"
ErrTooLong == "ErrTooLong"
ErrInvalidArgument == "ErrInvalidArgument"

\* ------------------------------------------------------------ byte helpers

Byte == 0..255

Min(a, b) == IF a < b THEN a ELSE b
Max(a, b) == IF a > b THEN a ELSE b

\* make([]byte, n): n zero bytes.
ZeroBlock == SubSeq([i \in 1..512 |-> 0], 1, 512)
Zeros(n) == IF n <= Len(ZeroBlock) THEN SubSeq(ZeroBlock, 1, n) ELSE [i \in 1..n |-> 0]

\* b[from:to] of Go (0-based, to exclusive) on a TLA+ sequence.
Slice(b, from, to) == SubSeq(b, from + 1, to)

\* copy(dst[at:], data): dst with data written from 0-based position at.
CopyAt(dst, at, data) ==
    LET n == Min(Len(data), Len(dst) - at)
    IN  SubSeq(dst, 1, at) \o SubSeq(data, 1, n) \o SubSeq(dst, at + n + 1, Len(dst))

\* ------------------------------------------------- 64-bit values as digits

\* uint64(n) for an int 0 <= n < 2^31.
ToU64(n) ==
    << n % 256, (n \div 256) % 256, (n \div 65536) % 256,
       (n \div 16777216) % 256, 0, 0, 0, 0 >>

\* int64(v); exact below 2^31, an arithmetic overflow (reported) above.
ToInt(v) ==
    v[1] + 256 * (v[2] + 256 * (v[3] + 256 * (v[4] + 256 * (v[5] + 256 *
        (v[6] + 256 * (v[7] + 256 * v[8]))))))

U64Less(a, b) ==
    \E i \in 1..8 : a[i] < b[i] /\ \A j \in (i + 1)..8 : a[j] = b[j]

U64Leq(a, b) == a = b \/ U64Less(a, b)

\* v << 8, v >> 8 and v & (1<<56 - 1) on 64-bit values.
Shl8(v) == <<0>> \o SubSeq(v, 1, 7)
Shr8(v) == SubSeq(v, 2, 8) \o <<0>>
Mask56(v) == SubSeq(v, 1, 7) \o <<0>>

framePayloadMaxLen56 == <<255, 255, 255, 255, 255, 255, 255, 0>>

Reverse(s) == [i \in 1..Len(s) |-> s[Len(s) + 1 - i]]

\* binary.ByteOrder.PutUint64 / Uint64 / PutUint16 / Uint16.
PutUint64(bo, v) == IF bo = LittleEndian THEN v ELSE Reverse(v)
Uint64(bo, b) == IF bo = LittleEndian THEN b ELSE Reverse(b)
PutUint16(bo, v) == IF bo = LittleEndian THEN <<v[1], v[2]>> ELSE <<v[2], v[1]>>
Uint16(bo, b) ==
    IF bo = LittleEndian THEN <<b[1], b[2], 0, 0, 0, 0, 0, 0>>
    ELSE <<b[2], b[1], 0, 0, 0, 0, 0, 0>>

\* --------------------------------------------------- header encode / decode

\* Mutant of WriteExLen: the one-byte class boundary off by one.
WriteExLenOffByOne(L) ==
    IF U64Leq(L, ToU64(framePayloadMaxLen8Bits + 1)) THEN 0
    ELSE IF U64Leq(L, ToU64(framePayloadMaxLen16)) THEN 2
    ELSE 7

\* writeStream: number of extended-length bytes for payload length L.
WriteExLen(L) ==
    IF U64Leq(L, ToU64(framePayloadMaxLen8Bits)) THEN 0
    ELSE IF U64Leq(L, ToU64(framePayloadMaxLen16)) THEN 2
    ELSE 7

\* Mutant of FillHeader: the little-endian 56-bit length is not shifted past
\* the lead byte.
FillHeaderNoShift(header, wbo, L) ==
    IF U64Leq(L, ToU64(framePayloadMaxLen8Bits)) THEN
        CopyAt(header, 0, <<L[1]>>)
    ELSE IF U64Leq(L, ToU64(framePayloadMaxLen16)) THEN
        CopyAt(CopyAt(header, 0, <<framePayloadMaxLen8Bits + 1>>),
               frameHeaderLen, PutUint16(wbo, L))
    ELSE
        CopyAt(PutUint64(wbo, Mask56(L)), 0, <<framePayloadMaxLen8Bits + 2>>)

\* writeStream: "fill header once"; header is the 8-byte scratch.
FillHeader(header, wbo, L) ==
    IF U64Leq(L, ToU64(framePayloadMaxLen8Bits)) THEN
        CopyAt(header, 0, <<L[1]>>)
    ELSE IF U64Leq(L, ToU64(framePayloadMaxLen16)) THEN
        CopyAt(CopyAt(header, 0, <<framePayloadMaxLen8Bits + 1>>),
               frameHeaderLen, PutUint16(wbo, L))
    ELSE
        CopyAt(IF wbo = LittleEndian
                   THEN PutUint64(wbo, Shl8(L))
                   ELSE PutUint64(wbo, Mask56(L)),
               0, <<framePayloadMaxLen8Bits + 2>>)

\* readStream step 2: extended-length bytes announced by the lead byte.
ReadExLen(h0) ==
    IF h0 = framePayloadMaxLen8Bits + 1 THEN 2
    ELSE IF h0 = framePayloadMaxLen8Bits + 2 THEN 7
    ELSE 0

\* Mutant of ParseLength: the 16-bit length is always read big-endian.
ParseLengthFixedOrder(header, rbo, exLen) ==
    IF exLen = 2 THEN
        Uint16(BigEndian, Slice(header, frameHeaderLen, frameHeaderLen + exLen))
    ELSE IF exLen = 7 THEN
        IF rbo = LittleEndian THEN Shr8(Uint64(rbo, header))
        ELSE Mask56(Uint64(rbo, header))
    ELSE ToU64(header[1])

\* readStream step 4: payload length from the header scratch.
ParseLength(header, rbo, exLen) ==
    IF exLen = 2 THEN
        Uint16(rbo, Slice(header, frameHeaderLen, frameHeaderLen + exLen))
    ELSE IF exLen = 7 THEN
        IF rbo = LittleEndian THEN Shr8(Uint64(rbo, header))
        ELSE Mask56(Uint64(rbo, header))
    ELSE ToU64(header[1])

\* ------------------------------------------------------------- transports

\* The underlying io.Reader during one framer call.  data: the bytes it can
\* deliver during the call; end: what it answers once data is exhausted
\* (ErrWouldBlock, ErrMore, EOF, or Nil for a Reader that breaks the io.Reader
\* contract with (0, nil)); comb: the answer comes together with the last
\* bytes, as (n > 0, end); stall: zero-progress would-block answers given
\* before any data; pause: when positive, the Read that delivers the
\* pause-th byte stops there and answers (n > 0, ErrWouldBlock), and the
\* Reads after it go on.  log records every Read call of the framer call.
NewSource(data, end, comb, stall) ==
    [data |-> data, end |-> end, comb |-> comb, stall |-> stall, pause |-> 0,
     log |-> <<>>]

\* A transport (source or sink) that pauses after k bytes.
Paused(t, k) == [t EXCEPT !.pause = k]

\* rd.Read(p) with len(p) = want.
SourceRead(t, want) ==
    LET m == Min(want, Len(t.data))
        n == IF t.pause > 0 THEN Min(m, t.pause) ELSE m
        err == IF t.stall > 0 THEN ErrWouldBlock
               ELSE IF n > 0 /\ n = t.pause THEN ErrWouldBlock
               ELSE IF n > 0 THEN (IF n = Len(t.data) /\ t.comb THEN t.end ELSE Nil)
               ELSE IF want = 0 THEN Nil
               ELSE t.end
        got == IF t.stall > 0 THEN 0 ELSE n
    IN  [n |-> got, bytes |-> SubSeq(t.data, 1, got), err |-> err,
         t |-> [t EXCEPT !.data = SubSeq(@, got + 1, Len(@)),
                         !.stall = IF @ > 0 THEN @ - 1 ELSE 0,
                         !.pause = IF @ > 0 THEN @ - got ELSE 0,
                         !.log = Append(@, [want |-> want, n |-> got, err |-> err])]]

\* The underlying io.Writer during one framer call.  room: the bytes it
\* accepts during the call; end: what it answers once room is exhausted
\* (ErrWouldBlock, ErrMore, or Nil for a short count without error); comb:
\* the answer comes together with the short count; stall and pause as for
\* the source; acc: the bytes accepted.
NewSink(room, end, comb, stall) ==
    [room |-> room, end |-> end, comb |-> comb, stall |-> stall, pause |-> 0,
     acc |-> <<>>, log |-> <<>>]

\* wr.Write(p).
SinkWrite(s, p) ==
    LET m == Min(s.room, Len(p))
        n == IF s.pause > 0 THEN Min(m, s.pause) ELSE m
        err == IF s.stall > 0 THEN ErrWouldBlock
               ELSE IF n > 0 /\ n = s.pause THEN ErrWouldBlock
               ELSE IF n = Len(p) THEN Nil
               ELSE IF n > 0 THEN (IF s.comb THEN s.end ELSE Nil)
               ELSE s.end
        put == IF s.stall > 0 THEN 0 ELSE n
    IN  [n |-> put, err |-> err,
         s |-> [s EXCEPT !.room = @ - put,
                         !.acc = @ \o SubSeq(p, 1, put),
                         !.stall = IF @ > 0 THEN @ - 1 ELSE 0,
                         !.pause = IF @ > 0 THEN @ - put ELSE 0,
                         !.log = Append(@, [want |-> Len(p), n |-> put, err |-> err])]]

\* A call that keeps retrying a transport that answers would-block forever
\* does not return.
Hang == "never returns"

SourceBlocksForever(t) ==
    t.stall = 0 /\ Len(t.data) = 0 /\ t.end = ErrWouldBlock

SinkBlocksForever(s) ==
    s.stall = 0 /\ s.room = 0 /\ s.end = ErrWouldBlock

\* ------------------------------------------------------------------ framer

preserveBoundary(p) == p \in {SeqPacket, Datagram}

\* newFramer: opts is the Options bundle; rd/wr tell whether r/w are non-nil.
newFramer(rd, wr, opts) ==
    [rd |-> rd, wr |-> wr,
     rbo |-> opts.ReadByteOrder, wbo |-> opts.WriteByteOrder,
     rpr |-> opts.ReadProto, wpr |-> opts.WriteProto,
     readLimit |-> opts.ReadLimit, retryDelay |-> opts.RetryDelay,
     header |-> Zeros(8), length |-> 0, offset |-> 0]

\* Mutant of reset: the offset survives the end of a message.
resetKeepsOffset(fr) == [fr EXCEPT !.length = 0]

reset(fr) == [fr EXCEPT !.offset = 0, !.length = 0]

\* Mutant of waitOnceOnWouldBlock: only a positive delay retries.
waitOnceOnWouldBlockPositive(fr) == fr.retryDelay > 0

\* Mutant of waitOnceOnWouldBlock: only the yield policy retries.
waitOnceOnWouldBlockYieldOnly(fr) == fr.retryDelay = 0

\* Whether the caller should retry after a would-block.
waitOnceOnWouldBlock(fr) == fr.retryDelay >= 0

RECURSIVE readOnce(_, _, _)

\* Mutant of readOnceGot: a zero count with a nil error is answered as a
\* would-block.
readOnceGotReportsSignal(fr, want, r) ==
    IF want # 0 /\ r.n = 0 /\ r.err = Nil THEN [r EXCEPT !.err = ErrWouldBlock]
    ELSE IF r.n > 0 THEN r
    ELSE IF r.err # ErrWouldBlock THEN r
    ELSE IF ~waitOnceOnWouldBlock(fr) THEN r
    ELSE IF SourceBlocksForever(r.t) THEN [r EXCEPT !.err = Hang]
    ELSE readOnce(fr, r.t, want)

\* Mutant of readOnceGot: a would-block is retried whether or not it came
\* with progress.
readOnceGotRetriesProgress(fr, want, r) ==
    IF want # 0 /\ r.n = 0 /\ r.err = Nil THEN [r EXCEPT !.err = ErrNoProgress]
    ELSE IF r.err # ErrWouldBlock THEN r
    ELSE IF ~waitOnceOnWouldBlock(fr) THEN r
    ELSE IF SourceBlocksForever(r.t) THEN [r EXCEPT !.err = Hang]
    ELSE readOnce(fr, r.t, want)

\* readOnce: r is what rd.Read returned.
readOnceGot(fr, want, r) ==
    IF want # 0 /\ r.n = 0 /\ r.err = Nil THEN [r EXCEPT !.err = ErrNoProgress]
    ELSE IF r.n > 0 THEN r
    ELSE IF r.err # ErrWouldBlock THEN r
    ELSE IF ~waitOnceOnWouldBlock(fr) THEN r
    ELSE IF SourceBlocksForever(r.t) THEN [r EXCEPT !.err = Hang]
    ELSE readOnce(fr, r.t, want)

readOnce(fr, t, want) == readOnceGot(fr, want, SourceRead(t, want))

\* writeOnce: r is what wr.Write returned.
RECURSIVE writeOnce(_, _, _)
writeOnceGot(fr, p, r) ==
    IF Len(p) # 0 /\ r.n = 0 /\ r.err = Nil THEN [r EXCEPT !.err = ErrShortWrite]
    ELSE IF r.n > 0 THEN r
    ELSE IF r.err # ErrWouldBlock THEN r
    ELSE IF ~waitOnceOnWouldBlock(fr) THEN r
    ELSE IF SinkBlocksForever(r.s) THEN [r EXCEPT !.err = Hang]
    ELSE writeOnce(fr, r.s, p)

writeOnce(fr, s, p) == writeOnceGot(fr, p, SinkWrite(s, p))

\* Result of a loop of readStream / writeStream: ret tells whether the
\* function returned from inside the loop (with n, err).
LoopRet(fr, io, p, n, err) ==
    [ret |-> TRUE, fr |-> fr, io |-> io, p |-> p, n |-> n, err |-> err]
LoopEnd(fr, io, p, n) ==
    [ret |-> FALSE, fr |-> fr, io |-> io, p |-> p, n |-> n, err |-> Nil]

\* readStream 1) read the lead byte; r is what readOnce returned.
RECURSIVE readLead(_, _, _)
readLeadGot(fr, p, r) ==
    LET fr1 == [fr EXCEPT !.header = CopyAt(@, fr.offset, r.bytes),
                          !.offset = @ + r.n]
    IN  IF r.err # Nil THEN
            IF r.err = EOF THEN
                IF fr1.offset = 0 THEN LoopRet(fr1, r.t, p, 0, EOF)
                ELSE IF fr1.offset < frameHeaderLen
                    THEN LoopRet(fr1, r.t, p, 0, ErrUnexpectedEOF)
                ELSE LoopEnd(fr1, r.t, p, 0)
            ELSE LoopRet(fr1, r.t, p, 0, r.err)
        ELSE readLead(fr1, r.t, p)

readLead(fr, t, p) ==
    IF fr.offset < frameHeaderLen
        THEN readLeadGot(fr, p, readOnce(fr, t, frameHeaderLen - fr.offset))
        ELSE LoopEnd(fr, t, p, 0)

RECURSIVE readExt(_, _, _, _)

\* Mutant of readExtGot: an end of stream inside the extended-length bytes
\* is passed on as it came.
readExtCleanEOF(fr, p, exLen, r) ==
    LET fr1 == [fr EXCEPT !.header = CopyAt(@, fr.offset, r.bytes),
                          !.offset = @ + r.n]
    IN  IF r.err # Nil THEN
            IF r.err = EOF /\ fr1.offset >= frameHeaderLen + exLen
                THEN LoopEnd(fr1, r.t, p, 0)
                ELSE LoopRet(fr1, r.t, p, 0, r.err)
        ELSE readExt(fr1, r.t, p, exLen)

\* readStream 3) read the extended-length bytes; r is what readOnce returned.
readExtGot(fr, p, exLen, r) ==
    LET fr1 == [fr EXCEPT !.header = CopyAt(@, fr.offset, r.bytes),
                          !.offset = @ + r.n]
    IN  IF r.err # Nil THEN
            IF r.err = EOF THEN
                IF fr1.offset < frameHeaderLen + exLen
                    THEN LoopRet(fr1, r.t, p, 0, ErrUnexpectedEOF)
                ELSE LoopEnd(fr1, r.t, p, 0)
            ELSE LoopRet(fr1, r.t, p, 0, r.err)
        ELSE readExt(fr1, r.t, p, exLen)

readExt(fr, t, p, exLen) ==
    IF fr.offset < frameHeaderLen + exLen
        THEN readExtGot(fr, p, exLen,
                        readOnce(fr, t, frameHeaderLen + exLen - fr.offset))
        ELSE LoopEnd(fr, t, p, 0)

RECURSIVE readPayload(_, _, _, _, _)

\* Mutant of readPayloadGot: an end of stream that comes with the last
\* payload bytes is reported as a truncation.
readPayloadStrictEOF(fr, p, n, hdrSize, r) ==
    LET payloadOff == fr.offset - hdrSize
        fr1 == [fr EXCEPT !.offset = @ + r.n]
        p1 == CopyAt(p, payloadOff, r.bytes)
        n1 == n + r.n
    IN  IF r.err # Nil THEN
            IF r.err = EOF
                THEN LoopRet(fr1, r.t, p1, n1, ErrUnexpectedEOF)
                ELSE LoopRet(fr1, r.t, p1, n1, r.err)
        ELSE readPayload(fr1, r.t, p1, n1, hdrSize)

\* Mutant of readPayloadGot: a resumed call copies to the start of p, not to
\* p[payloadOff:].
readPayloadFromStart(fr, p, n, hdrSize, r) ==
    LET fr1 == [fr EXCEPT !.offset = @ + r.n]
        p1 == CopyAt(p, n, r.bytes)
        n1 == n + r.n
    IN  IF r.err # Nil THEN
            IF r.err = EOF THEN
                IF fr1.offset < hdrSize + fr1.length
                    THEN LoopRet(fr1, r.t, p1, n1, ErrUnexpectedEOF)
                ELSE LoopEnd(fr1, r.t, p1, n1)
            ELSE LoopRet(fr1, r.t, p1, n1, r.err)
        ELSE readPayload(fr1, r.t, p1, n1, hdrSize)

\* Mutant of readPayloadGot: the count is the payload bytes of the message
\* read so far, those of earlier calls included.
readPayloadGotCountsAll(fr, p, n, hdrSize, r) ==
    LET payloadOff == fr.offset - hdrSize
        fr1 == [fr EXCEPT !.offset = @ + r.n]
        p1 == CopyAt(p, payloadOff, r.bytes)
        n1 == fr1.offset - hdrSize
    IN  IF r.err # Nil THEN
            IF r.err = EOF THEN
                IF fr1.offset < hdrSize + fr1.length
                    THEN LoopRet(fr1, r.t, p1, n1, ErrUnexpectedEOF)
                ELSE LoopEnd(fr1, r.t, p1, n1)
            ELSE LoopRet(fr1, r.t, p1, n1, r.err)
        ELSE readPayload(fr1, r.t, p1, n1, hdrSize)

\* readStream 5) read the payload directly into p; r is what readOnce
\* returned for p[payloadOff:fr.length].
readPayloadGot(fr, p, n, hdrSize, r) ==
    LET payloadOff == fr.offset - hdrSize
        fr1 == [fr EXCEPT !.offset = @ + r.n]
        p1 == CopyAt(p, payloadOff, r.bytes)
        n1 == n + r.n
    IN  IF r.err # Nil THEN
            IF r.err = EOF THEN
                IF fr1.offset < hdrSize + fr1.length
                    THEN LoopRet(fr1, r.t, p1, n1, ErrUnexpectedEOF)
                ELSE LoopEnd(fr1, r.t, p1, n1)
            ELSE LoopRet(fr1, r.t, p1, n1, r.err)
        ELSE readPayload(fr1, r.t, p1, n1, hdrSize)

\* Mutant of readPayload: the transport is asked to fill the rest of p.
readPayloadWholeBuffer(fr, t, p, n, hdrSize) ==
    IF fr.offset < hdrSize + fr.length
        THEN readPayloadGot(fr, p, n, hdrSize,
                            readOnce(fr, t, Len(p) - (fr.offset - hdrSize)))
        ELSE LoopEnd(fr, t, p, n)

readPayload(fr, t, p, n, hdrSize) ==
    IF fr.offset < hdrSize + fr.length
        THEN readPayloadGot(fr, p, n, hdrSize,
                            readOnce(fr, t, fr.length - (fr.offset - hdrSize)))
        ELSE LoopEnd(fr, t, p, n)

\* readStream 2) the extended-length bytes the lead byte announces.
exLenOf(fr) ==
    IF fr.offset >= frameHeaderLen THEN ReadExLen(fr.header[1]) ELSE 0

\* readStream 4) parse the payload length once the header is complete.
parseHeader(fr, exLen) ==
    IF fr.offset = frameHeaderLen + exLen
        THEN [fr EXCEPT !.length = ToInt(ParseLength(fr.header, fr.rbo, exLen))]
        ELSE fr

\* readStream, end: c is the outcome of the payload loop.
readStreamEnd(c) ==
    IF c.ret THEN c ELSE LoopRet(reset(c.fr), c.io, c.p, c.n, Nil)

\* Mutant of readStreamChecked: a short buffer drops the parsed header.
readStreamCheckedForgets(fr, t, p, exLen) ==
    IF fr.length < 0 \/ U64Less(framePayloadMaxLen56, ToU64(fr.length))
        THEN LoopRet(fr, t, p, 0, ErrTooLong)
    ELSE IF fr.readLimit > 0 /\ fr.length > fr.readLimit
        THEN LoopRet(fr, t, p, 0, ErrTooLong)
    ELSE IF Len(p) < fr.length
        THEN LoopRet(reset(fr), t, p, 0, ErrShortBuffer)
    ELSE readStreamEnd(readPayload(fr, t, p, 0, frameHeaderLen + exLen))

\* Mutant of readStreamChecked: a length equal to the read limit is refused.
readStreamCheckedInclusive(fr, t, p, exLen) ==
    IF fr.length < 0 \/ U64Less(framePayloadMaxLen56, ToU64(fr.length))
        THEN LoopRet(fr, t, p, 0, ErrTooLong)
    ELSE IF fr.readLimit > 0 /\ fr.length >= fr.readLimit
        THEN LoopRet(fr, t, p, 0, ErrTooLong)
    ELSE IF Len(p) < fr.length
        THEN LoopRet(fr, t, p, 0, ErrShortBuffer)
    ELSE readStreamEnd(readPayload(fr, t, p, 0, frameHeaderLen + exLen))

\* readStream from the size checks on: fr holds the parsed length.
readStreamChecked(fr, t, p, exLen) ==
    IF fr.length < 0 \/ U64Less(framePayloadMaxLen56, ToU64(fr.length))
        THEN LoopRet(fr, t, p, 0, ErrTooLong)
    ELSE IF fr.readLimit > 0 /\ fr.length > fr.readLimit
        THEN LoopRet(fr, t, p, 0, ErrTooLong)
    ELSE IF Len(p) < fr.length
        THEN LoopRet(fr, t, p, 0, ErrShortBuffer)
    ELSE readStreamEnd(readPayload(fr, t, p, 0, frameHeaderLen + exLen))

\* readStream from step 4 on: b is the outcome of the extended-length loop.
readStreamParsed(p, exLen, b) ==
    IF b.ret THEN b
    ELSE readStreamChecked(parseHeader(b.fr, exLen), b.io, p, exLen)

\* readStream from step 2 on: a is the outcome of the lead-byte loop.
readStreamLed(p, a) ==
    IF a.ret THEN a
    ELSE readStreamParsed(p, exLenOf(a.fr), readExt(a.fr, a.io, p, exLenOf(a.fr)))

readStream(fr, t, p) == readStreamLed(p, readLead(fr, t, p))

\* Mutant of readPacketGot: a packet over the read limit is reported with a
\* zero count, as readStream does.
readPacketGotZeroCount(fr, p, r) ==
    IF fr.readLimit > 0 /\ r.n > fr.readLimit
        THEN LoopRet(fr, r.t, CopyAt(p, 0, r.bytes), 0, ErrTooLong)
        ELSE LoopRet(fr, r.t, CopyAt(p, 0, r.bytes), r.n, r.err)

\* Mutant of readPacketGot: a packet that fills the read limit is refused.
readPacketGotInclusive(fr, p, r) ==
    IF fr.readLimit > 0 /\ r.n >= fr.readLimit
        THEN LoopRet(fr, r.t, CopyAt(p, 0, r.bytes), r.n, ErrTooLong)
        ELSE LoopRet(fr, r.t, CopyAt(p, 0, r.bytes), r.n, r.err)

\* readPacket: r is what readOnce returned for p.
readPacketGot(fr, p, r) ==
    IF fr.readLimit > 0 /\ r.n > fr.readLimit
        THEN LoopRet(fr, r.t, CopyAt(p, 0, r.bytes), r.n, ErrTooLong)
        ELSE LoopRet(fr, r.t, CopyAt(p, 0, r.bytes), r.n, r.err)

readPacket(fr, t, p) == readPacketGot(fr, p, readOnce(fr, t, Len(p)))

read(fr, t, p) ==
    IF ~fr.rd THEN LoopRet(fr, t, p, 0, ErrInvalidArgument)
    ELSE IF preserveBoundary(fr.rpr) THEN readPacket(fr, t, p)
    ELSE readStream(fr, t, p)

\* writeStream: the size guard on len(p).
WriteTooLong(L) == U64Less(framePayloadMaxLen56, L)

RECURSIVE writeHeader(_, _, _, _)

\* Mutant of writeHeaderGot: the header bytes accepted before a signal are
\* reported as progress.
writeHeaderGotCounts(fr, p, hdrSize, r) ==
    IF r.err # Nil
        THEN LoopRet([fr EXCEPT !.offset = @ + r.n], r.s, p, r.n, r.err)
        ELSE writeHeader([fr EXCEPT !.offset = @ + r.n], r.s, p, hdrSize)

\* writeStream: write header[offset:hdrSize]; r is what writeOnce returned.
writeHeaderGot(fr, p, hdrSize, r) ==
    IF r.err # Nil
        THEN LoopRet([fr EXCEPT !.offset = @ + r.n], r.s, p, 0, r.err)
        ELSE writeHeader([fr EXCEPT !.offset = @ + r.n], r.s, p, hdrSize)

writeHeader(fr, s, p, hdrSize) ==
    IF fr.offset < hdrSize
        THEN writeHeaderGot(fr, p, hdrSize,
                            writeOnce(fr, s, Slice(fr.header, fr.offset, hdrSize)))
        ELSE LoopEnd(fr, s, p, 0)

\* writeStream: write p[payloadOff:]; r is what writeOnce returned.
RECURSIVE writePayload(_, _, _, _, _)
writePayloadGot(fr, p, n, hdrSize, r) ==
    IF r.err # Nil
        THEN LoopRet([fr EXCEPT !.offset = @ + r.n], r.s, p, n + r.n, r.err)
        ELSE writePayload([fr EXCEPT !.offset = @ + r.n], r.s, p, n + r.n, hdrSize)

\* Mutant of writePayload: a resumed call writes p from its start, not
\* p[payloadOff:].
writePayloadFromStart(fr, s, p, n, hdrSize) ==
    IF fr.offset < hdrSize + fr.length
        THEN writePayloadGot(fr, p, n, hdrSize,
                             writeOnce(fr, s, Slice(p, n, Len(p))))
        ELSE LoopEnd(fr, s, p, n)

\* writeStream: payloadOff := fr.offset - hdrSize.
writePayload(fr, s, p, n, hdrSize) ==
    IF fr.offset < hdrSize + fr.length
        THEN writePayloadGot(fr, p, n, hdrSize,
                             writeOnce(fr, s, Slice(p, fr.offset - hdrSize, Len(p))))
        ELSE LoopEnd(fr, s, p, n)

\* Mutant of beginMessage: every call fixes the length anew.
beginMessageAlways(fr, p) == [fr EXCEPT !.length = Len(p)]

\* writeStream: per-message state set on the first call of a message.
beginMessage(fr, p) ==
    IF fr.offset = 0 THEN [fr EXCEPT !.length = Len(p)] ELSE fr

\* writeStream: the header is filled on the first call of a message only.
fillOnce(fr) ==
    IF fr.offset = 0
        THEN [fr EXCEPT !.header = FillHeader(@, fr.wbo, ToU64(fr.length))]
        ELSE fr

\* writeStream, end: b is the outcome of the payload loop.
writeStreamEnd(b) ==
    IF b.ret THEN b ELSE LoopRet(reset(b.fr), b.io, b.p, b.n, Nil)

\* writeStream from the payload loop on: a is the outcome of the header loop.
writeStreamHeaded(p, hdrSize, a) ==
    IF a.ret THEN a
    ELSE writeStreamEnd(writePayload(a.fr, a.io, p, 0, hdrSize))

\* Mutant of writeStreamBegun: a call that finds payload bytes of a frame on
\* the wire is refused, whatever it brings.
writeStreamBegunRefusesResume(fr, s, p, hdrSize) ==
    IF fr.length # Len(p) \/ fr.offset > hdrSize
        THEN LoopRet(fr, s, p, 0, ErrShortWrite)
    ELSE writeStreamHeaded(p, hdrSize, writeHeader(fillOnce(fr), s, p, hdrSize))

\* writeStream from the message-identity guard on: fr holds the length.
writeStreamBegun(fr, s, p, hdrSize) ==
    IF fr.length # Len(p) THEN LoopRet(fr, s, p, 0, ErrShortWrite)
    ELSE writeStreamHeaded(p, hdrSize, writeHeader(fillOnce(fr), s, p, hdrSize))

\* writeStream: hdrSize := frameHeaderLen + exLen.
hdrSizeOf(fr) == frameHeaderLen + WriteExLen(ToU64(fr.length))

writeStream(fr, s, p) ==
    IF WriteTooLong(ToU64(Len(p))) THEN LoopRet(fr, s, p, 0, ErrTooLong)
    ELSE writeStreamBegun(beginMessage(fr, p), s, p, hdrSizeOf(beginMessage(fr, p)))

\* writePacket: r is what writeOnce returned for p.
writePacketGot(fr, p, r) ==
    IF r.err # Nil THEN LoopRet(fr, r.s, p, r.n, r.err)
    ELSE IF r.n # Len(p) THEN LoopRet(fr, r.s, p, r.n, ErrShortWrite)
    ELSE LoopRet(fr, r.s, p, r.n, Nil)

writePacket(fr, s, p) ==
    IF WriteTooLong(ToU64(Len(p))) THEN LoopRet(fr, s, p, 0, ErrTooLong)
    ELSE writePacketGot(fr, p, writeOnce(fr, s, p))

write(fr, s, p) ==
    IF ~fr.wr THEN LoopRet(fr, s, p, 0, ErrInvalidArgument)
    ELSE IF preserveBoundary(fr.wpr) THEN writePacket(fr, s, p)
    ELSE writeStream(fr, s, p)

\* --------------------------------------------------------------- Forwarder

\* Result of a phase of ForwardOnce: ret tells whether ForwardOnce returned
\* from inside the phase (with n, err).
FwdRet(f, t, s, n, err) ==
    [ret |-> TRUE, f |-> f, t |-> t, s |-> s, n |-> n, err |-> err]
FwdGo(f, t, s) ==
    [ret |-> FALSE, f |-> f, t |-> t, s |-> s, n |-> 0, err |-> Nil]

\* Mutant of NewForwarder: without a read limit the buffer has 32KiB.
NewForwarderHalfCap(opts) ==
    LET rr == newFramer(TRUE, FALSE, opts)
        ww == newFramer(FALSE, TRUE, opts)
        capHint == IF rr.readLimit <= 0 THEN 32 * 1024 ELSE rr.readLimit
    IN  [rr |-> rr, ww |-> ww, buf |-> Zeros(capHint),
         need |-> 0, got |-> 0, state |-> 0,
         eofAfterThis |-> FALSE, eofPending |-> FALSE]

\* NewForwarder: the payload buffer is sized by the read limit, 64KiB when
\* there is none.
NewForwarder(opts) ==
    LET rr == newFramer(TRUE, FALSE, opts)
        ww == newFramer(FALSE, TRUE, opts)
        capHint == IF rr.readLimit <= 0 THEN 64 * 1024 ELSE rr.readLimit
    IN  [rr |-> rr, ww |-> ww, buf |-> Zeros(capHint),
         need |-> 0, got |-> 0, state |-> 0,
         eofAfterThis |-> FALSE, eofPending |-> FALSE]

\* Mutant of forwardHeaderGot: a length over the read limit is handled like
\* a length the buffer cannot hold.
forwardHeaderGotIgnoresLimit(f, s, r) ==
    LET f1 == [f EXCEPT !.rr = r.fr]
    IN  IF r.err # Nil THEN
            IF r.err \in {ErrShortBuffer, ErrTooLong} THEN
                IF r.fr.length > Len(f.buf)
                    THEN FwdRet(f1, r.io, s, 0, ErrShortBuffer)
                    ELSE FwdGo([f1 EXCEPT !.need = r.fr.length, !.got = 0,
                                          !.state = 1], r.io, s)
            ELSE FwdRet(f1, r.io, s, 0, r.err)
        ELSE FwdGo([f1 EXCEPT !.need = 0, !.got = 0, !.state = 2], r.io, s)

\* Mutant of forwardHeaderGot: a refused message is dropped, the reading
\* framer reset for the header that follows.
forwardHeaderGotSkipsRefused(f, s, r) ==
    LET f1 == [f EXCEPT !.rr = r.fr]
        f0 == [f EXCEPT !.rr = reset(r.fr)]
    IN  IF r.err # Nil THEN
            IF r.err = ErrShortBuffer THEN
                IF r.fr.length > Len(f.buf)
                    THEN FwdRet(f0, r.io, s, 0, ErrShortBuffer)
                    ELSE FwdGo([f1 EXCEPT !.need = r.fr.length, !.got = 0,
                                          !.state = 1], r.io, s)
            ELSE IF r.err = ErrTooLong THEN FwdRet(f0, r.io, s, 0, r.err)
            ELSE FwdRet(f1, r.io, s, 0, r.err)
        ELSE FwdGo([f1 EXCEPT !.need = 0, !.got = 0, !.state = 2], r.io, s)

\* ForwardOnce, phase 0: drive the header parse to learn the payload length;
\* r is what rr.read(nil) returned.
forwardHeaderGot(f, s, r) ==
    LET f1 == [f EXCEPT !.rr = r.fr]
    IN  IF r.err # Nil THEN
            IF r.err = ErrShortBuffer THEN
                IF r.fr.length > Len(f.buf)
                    THEN FwdRet(f1, r.io, s, 0, ErrShortBuffer)
                    ELSE FwdGo([f1 EXCEPT !.need = r.fr.length, !.got = 0,
                                          !.state = 1], r.io, s)
            ELSE FwdRet(f1, r.io, s, 0, r.err)
        ELSE FwdGo([f1 EXCEPT !.need = 0, !.got = 0, !.state = 2], r.io, s)

forwardHeader(f, t, s) ==
    IF ~preserveBoundary(f.rr.rpr)
        THEN forwardHeaderGot(f, s, read(f.rr, t, <<>>))
        ELSE FwdGo([f EXCEPT !.got = 0, !.need = 0, !.state = 1], t, s)

RECURSIVE forwardStream(_, _, _)

\* Mutant of forwardStreamGot: a read stopped by a signal counts all the
\* payload bytes in the buffer, those of earlier calls included.
forwardStreamGotCountsAll(f, s, at, r) ==
    LET f1 == [f EXCEPT !.rr = r.fr,
                        !.buf = CopyAt(@, at, r.p),
                        !.got = @ + r.n]
    IN  IF r.err # Nil THEN
            IF r.err = EOF THEN FwdRet(f1, r.io, s, f1.got, ErrUnexpectedEOF)
            ELSE FwdRet(f1, r.io, s, f1.got, r.err)
        ELSE forwardStream(f1, r.io, s)

\* ForwardOnce, phase 1 on a stream: r is what rr.read returned for the
\* slice of buf that starts at index at.
forwardStreamGot(f, s, at, r) ==
    LET f1 == [f EXCEPT !.rr = r.fr,
                        !.buf = CopyAt(@, at, r.p),
                        !.got = @ + r.n]
    IN  IF r.err # Nil THEN
            IF r.err \in {ErrWouldBlock, ErrMore} THEN FwdRet(f1, r.io, s, r.n, r.err)
            ELSE IF r.err = EOF THEN FwdRet(f1, r.io, s, f1.got, ErrUnexpectedEOF)
            ELSE FwdRet(f1, r.io, s, r.n, r.err)
        ELSE forwardStream(f1, r.io, s)

\* Mutant of forwardStream: the codec is handed buf[got:need], not buf[:need].
forwardStreamFromGot(f, t, s) ==
    IF f.got < f.need
        THEN forwardStreamGot(f, s, f.got,
                              read(f.rr, t, SubSeq(f.buf, f.got + 1, f.need)))
        ELSE FwdGo([f EXCEPT !.state = 2], t, s)

\* ForwardOnce, phase 1 on a stream: read the payload into buf[:need].
forwardStream(f, t, s) ==
    IF f.got < f.need
        THEN forwardStreamGot(f, s, 0, read(f.rr, t, SubSeq(f.buf, 1, f.need)))
        ELSE FwdGo([f EXCEPT !.state = 2], t, s)

\* Mutant of forwardPacketGot: io.EOF together with a packet is returned
\* like any other error, the packet left in the buffer.
forwardPacketGotDropsFinal(f, s, r) ==
    LET f1 == [f EXCEPT !.rr = r.fr,
                        !.buf = CopyAt(@, f.got, r.p),
                        !.got = @ + r.n]
        done == [f1 EXCEPT !.need = f1.got, !.state = 2]
    IN  IF r.err = Nil THEN FwdGo(done, r.io, s)
        ELSE IF r.err # EOF THEN FwdRet(f1, r.io, s, r.n, r.err)
        ELSE IF f1.got = 0 THEN FwdRet(f1, r.io, s, 0, EOF)
        ELSE FwdRet(f1, r.io, s, r.n, EOF)

\* Mutant of forwardPacketGot: each read fills the buffer from its start,
\* over the bytes of the earlier parts.
forwardPacketGotOverwrites(f, s, r) ==
    LET f1 == [f EXCEPT !.rr = r.fr,
                        !.buf = CopyAt(@, 0, r.p),
                        !.got = @ + r.n]
        done == [f1 EXCEPT !.need = f1.got, !.state = 2]
    IN  IF r.err = Nil THEN FwdGo(done, r.io, s)
        ELSE IF r.err # EOF THEN FwdRet(f1, r.io, s, r.n, r.err)
        ELSE IF f1.got = 0 THEN FwdRet(f1, r.io, s, 0, EOF)
        ELSE FwdGo([done EXCEPT !.eofAfterThis = TRUE], r.io, s)

\* ForwardOnce, phase 1 on packets: r is what rr.read returned for
\* buf[got:max].
forwardPacketGot(f, s, r) ==
    LET f1 == [f EXCEPT !.rr = r.fr,
                        !.buf = CopyAt(@, f.got, r.p),
                        !.got = @ + r.n]
        done == [f1 EXCEPT !.need = f1.got, !.state = 2]
    IN  IF r.err = Nil THEN FwdGo(done, r.io, s)
        ELSE IF r.err # EOF THEN FwdRet(f1, r.io, s, r.n, r.err)
        ELSE IF f1.got = 0 THEN FwdRet(f1, r.io, s, 0, EOF)
        ELSE FwdGo([done EXCEPT !.eofAfterThis = TRUE], r.io, s)

\* ForwardOnce, phase 1 on packets: the end of the slice one packet is read
\* into.
packetMax(f) ==
    IF f.rr.readLimit > 0 /\ Len(f.buf) > f.rr.readLimit
        THEN f.rr.readLimit ELSE Len(f.buf)

forwardPacket(f, t, s) ==
    forwardPacketGot(f, s, read(f.rr, t, SubSeq(f.buf, f.got + 1, packetMax(f))))

\* ForwardOnce, phase 1: read the payload into the internal buffer.
forwardPayload(f, t, s) ==
    IF preserveBoundary(f.rr.rpr) THEN forwardPacket(f, t, s)
    ELSE forwardStream(f, t, s)

\* Mutant of forwardFrameGot: a write that did not finish the frame sends the
\* Forwarder back to the header phase.
forwardFrameGotResets(f, t, w) ==
    LET f1 == [f EXCEPT !.ww = w.fr]
    IN  FwdRet([f1 EXCEPT !.eofAfterThis = FALSE,
                          !.eofPending = @ \/ f1.eofAfterThis,
                          !.state = 0, !.need = 0, !.got = 0],
               t, w.io, w.n, w.err)

\* ForwardOnce, phase 2: w is what ww.write(buf[:need]) returned.
forwardFrameGot(f, t, w) ==
    LET f1 == [f EXCEPT !.ww = w.fr]
    IN  IF w.err # Nil THEN FwdRet(f1, t, w.io, w.n, w.err)
        ELSE FwdRet([f1 EXCEPT !.eofAfterThis = FALSE,
                               !.eofPending = @ \/ f1.eofAfterThis,
                               !.state = 0, !.need = 0, !.got = 0],
                    t, w.io, w.n, Nil)

\* ForwardOnce, phase 2: write the payload as one framed message.
forwardFrame(f, t, s) ==
    forwardFrameGot(f, t, write(f.ww, s, SubSeq(f.buf, 1, f.need)))

\* ForwardOnce from phase 2 on: b is the outcome of phase 1.
forwardOnceWrite(b) ==
    IF b.ret THEN b
    ELSE IF b.f.state = 2 THEN forwardFrame(b.f, b.t, b.s)
    ELSE FwdRet(b.f, b.t, b.s, 0, Nil)

\* ForwardOnce from phase 1 on: a is the outcome of phase 0.
forwardOnceRead(a) ==
    IF a.ret THEN a
    ELSE forwardOnceWrite(IF a.f.state = 1
                              THEN forwardPayload(a.f, a.t, a.s) ELSE a)

\* Mutant of ForwardOnce: the pending end of the source is reported once.
ForwardOnceReportsOnce(f, t, s) ==
    IF f.state = 0 /\ f.eofPending
        THEN FwdRet([f EXCEPT !.eofPending = FALSE], t, s, 0, EOF)
    ELSE forwardOnceRead(IF f.state = 0
                             THEN forwardHeader(f, t, s) ELSE FwdGo(f, t, s))

ForwardOnce(f, t, s) ==
    IF f.state = 0 /\ f.eofPending THEN FwdRet(f, t, s, 0, EOF)
    ELSE forwardOnceRead(IF f.state = 0
                             THEN forwardHeader(f, t, s) ELSE FwdGo(f, t, s))

\* ------------------------------------------------------- WriteTo / ReadFrom

\* What WriteTo returns, with the state it leaves: the framer, its scratch
\* buffer, the source and the sink.
WtRet(fr, buf, t, s, total, err) ==
    [fr |-> fr, rbuf |-> buf, t |-> t, s |-> s, n |-> total, err |-> err]

RECURSIVE writeToStream(_, _, _, _, _)
RECURSIVE writeToDst(_, _, _, _, _, _, _)

\* Mutant of writeToDstGot: the bytes a Write accepted before it failed are
\* not counted.
writeToDstGotDropsCount(fr, buf, t, total, need, off, w) ==
    IF w.err # Nil THEN WtRet(fr, buf, t, w.s, total, w.err)
    ELSE IF w.n = 0 THEN WtRet(fr, buf, t, w.s, total, ErrShortWrite)
    ELSE writeToDst(fr, buf, t, w.s, total + w.n, need, off + w.n)

\* WriteTo, stream: w is what dst.Write(rbuf[off:need]) returned.
writeToDstGot(fr, buf, t, total, need, off, w) ==
    IF w.err # Nil THEN WtRet(fr, buf, t, w.s, total + w.n, w.err)
    ELSE IF w.n = 0 THEN WtRet(fr, buf, t, w.s, total, ErrShortWrite)
    ELSE writeToDst(fr, buf, t, w.s, total + w.n, need, off + w.n)

\* WriteTo, stream: write the payload to dst, then loop for the next message.
writeToDst(fr, buf, t, s, total, need, off) ==
    IF off < need
        THEN writeToDstGot(fr, buf, t, total, need, off,
                           SinkWrite(s, SubSeq(buf, off + 1, need)))
        ELSE writeToStream(fr, buf, t, s, total)

RECURSIVE writeToPayload(_, _, _, _, _, _, _)

\* WriteTo, stream: r is what fr.read(rbuf[got:need]) returned.
writeToPayloadGot(buf, s, total, need, got, r) ==
    IF r.err # Nil THEN
        IF r.err \in {ErrWouldBlock, ErrMore}
            THEN WtRet(r.fr, CopyAt(buf, got, r.p), r.io, s, total, r.err)
        ELSE IF r.err = EOF
            THEN WtRet(r.fr, CopyAt(buf, got, r.p), r.io, s, total, ErrUnexpectedEOF)
        ELSE WtRet(r.fr, CopyAt(buf, got, r.p), r.io, s, total, r.err)
    ELSE writeToPayload(r.fr, CopyAt(buf, got, r.p), r.io, s, total, need, got + r.n)

\* WriteTo, stream: read the payload into rbuf[got:need]; got starts at 0 in
\* every call.
writeToPayload(fr, buf, t, s, total, need, got) ==
    IF got < need
        THEN writeToPayloadGot(buf, s, total, need, got,
                               read(fr, t, SubSeq(buf, got + 1, need)))
        ELSE writeToDst(fr, buf, t, s, total, need, 0)

\* Mutant of writeToHeaderGot: a length over the scratch buffer is reported
\* as the short buffer fr.read(nil) returned.
writeToHeaderGotShortBuffer(buf, s, total, r) ==
    IF r.err # Nil /\ (r.err # ErrShortBuffer \/ r.fr.length > Len(buf))
        THEN WtRet(r.fr, buf, r.io, s, total, IF r.err = EOF THEN Nil ELSE r.err)
    ELSE IF r.fr.length = 0
        THEN writeToStream(r.fr, buf, r.io, s, total)
    ELSE writeToPayload(r.fr, buf, r.io, s, total, r.fr.length, 0)

\* Mutant of writeToHeaderGot: a zero-length message ends the call.
writeToHeaderGotStopsAtEmpty(buf, s, total, r) ==
    IF r.err = ErrShortBuffer /\ r.fr.length > Len(buf)
        THEN WtRet(r.fr, buf, r.io, s, total, ErrTooLong)
    ELSE IF r.err # Nil /\ r.err # ErrShortBuffer
        THEN WtRet(r.fr, buf, r.io, s, total, IF r.err = EOF THEN Nil ELSE r.err)
    ELSE IF r.fr.length = 0
        THEN WtRet(r.fr, buf, r.io, s, total, Nil)
    ELSE writeToPayload(r.fr, buf, r.io, s, total, r.fr.length, 0)

\* WriteTo, stream: r is what fr.read(nil) returned.
writeToHeaderGot(buf, s, total, r) ==
    IF r.err = ErrShortBuffer /\ r.fr.length > Len(buf)
        THEN WtRet(r.fr, buf, r.io, s, total, ErrTooLong)
    ELSE IF r.err # Nil /\ r.err # ErrShortBuffer
        THEN WtRet(r.fr, buf, r.io, s, total, IF r.err = EOF THEN Nil ELSE r.err)
    ELSE IF r.fr.length = 0
        THEN writeToStream(r.fr, buf, r.io, s, total)
    ELSE writeToPayload(r.fr, buf, r.io, s, total, r.fr.length, 0)

\* WriteTo, stream: one framed message at a time.
writeToStream(fr, buf, t, s, total) ==
    writeToHeaderGot(buf, s, total, read(fr, t, <<>>))

RECURSIVE writeToPacket(_, _, _, _, _)
RECURSIVE writeToPacketDst(_, _, _, _, _)

\* WriteTo, packets: w is what dst.Write(buf[off:n]) returned.
writeToPacketDstGot(r, buf, total, off, w) ==
    IF w.err # Nil THEN WtRet(r.fr, buf, r.io, w.s, total + w.n, w.err)
    ELSE IF w.n = 0 THEN WtRet(r.fr, buf, r.io, w.s, total, ErrShortWrite)
    ELSE writeToPacketDst(r, buf, w.s, total + w.n, off + w.n)

\* WriteTo, packets: write the n bytes fr.read returned (r), then look at the
\* error it returned with them.
writeToPacketDst(r, buf, s, total, off) ==
    IF off < r.n
        THEN writeToPacketDstGot(r, buf, total, off,
                                 SinkWrite(s, SubSeq(r.p, off + 1, r.n)))
    ELSE IF r.err # Nil
        THEN WtRet(r.fr, buf, r.io, s, total, IF r.err = EOF THEN Nil ELSE r.err)
    ELSE writeToPacket(r.fr, buf, r.io, s, total)

\* WriteTo, packets: pass-through copy using a stack buffer of 32KiB.
writeToPacket(fr, buf, t, s, total) ==
    writeToPacketDst(read(fr, t, Zeros(32 * 1024)), buf, s, total, 0)

\* WriteTo: the scratch buffer is allocated once, sized by the read limit,
\* 64KiB when there is none.
allocRbuf(fr, buf) ==
    IF buf = <<>>
        THEN Zeros(IF fr.readLimit <= 0 THEN 64 * 1024 ELSE fr.readLimit)
        ELSE buf

\* Reader.WriteTo(dst).
WriteTo(fr, buf, t, s) ==
    IF preserveBoundary(fr.rpr) THEN writeToPacket(fr, buf, t, s, 0)
    ELSE writeToStream(fr, allocRbuf(fr, buf), t, s, 0)

\* The io.Reader handed to ReadFrom: every Read returns the next chunk
\* whole with a nil error, and end once the chunks are exhausted.
NewChunks(chunks, end) == [chunks |-> chunks, end |-> end]

\* src.Read(buf) with len(buf) = want.
ChunkRead(c, want) ==
    IF c.chunks = <<>>
        THEN [n |-> 0, bytes |-> <<>>, err |-> c.end, c |-> c]
        ELSE [n |-> Min(want, Len(Head(c.chunks))),
              bytes |-> SubSeq(Head(c.chunks), 1, Min(want, Len(Head(c.chunks)))),
              err |-> Nil,
              c |-> [c EXCEPT !.chunks = Tail(@)]]

\* What a call of ReadFrom leaves behind and returns.
RfRet(fr, c, s, total, err) ==
    [fr |-> fr, c |-> c, s |-> s, n |-> total, err |-> err]

wbufSize == 32 * 1024

RECURSIVE readFrom(_, _, _, _)

\* ReadFrom: the error of src.Read, after the chunk (if any) was written.
readFromEnd(fr, c, s, total, er) ==
    IF er # Nil
        THEN IF er = EOF THEN RfRet(fr, c, s, total, Nil)
             ELSE RfRet(fr, c, s, total, er)
        ELSE readFrom(fr, c, s, total)

\* ReadFrom: w is what fr.write(buf[:n]) returned for the chunk of r.
readFromWrote(r, total, w) ==
    IF w.err # Nil THEN RfRet(w.fr, r.c, w.io, total + w.n, w.err)
    ELSE IF w.n # r.n THEN RfRet(w.fr, r.c, w.io, total + w.n, ErrShortWrite)
    ELSE readFromEnd(w.fr, r.c, w.io, total + w.n, r.err)

\* ReadFrom: r is what src.Read(buf) returned.
readFromGot(fr, s, total, r) ==
    IF r.n > 0
        THEN readFromWrote(r, total, write(fr, s, r.bytes))
        ELSE readFromEnd(fr, r.c, s, total, r.err)

\* ReadFrom: the loop, one chunk per turn.
readFrom(fr, c, s, total) ==
    readFromGot(fr, s, total, ChunkRead(c, wbufSize))

\* Writer.ReadFrom(src).
ReadFrom(fr, c, s) == readFrom(fr, c, s, 0)

\* ------------------------------------------------------------------- state

VARIABLES
    hx,      \* header codec exercised on one length: see InitHdr
    rfr,     \* the framer of the Reader
    wfr,     \* the framer of the Writer
    pipe,    \* the bytes the Writer's transport has accepted, in order
    rpos,    \* how many bytes of pipe the Reader's transport has delivered
    closed,  \* the writing end of the pipe is closed
    rcl,     \* the caller of Reader.Read: its buffer and what it observed
    wcl,     \* the caller of Writer.Write: its message and what it observed
    fwd,     \* the Forwarder between the pipe and the sink
    out,     \* the bytes the Forwarder's sink has accepted, in order
    fcl,     \* the caller of ForwardOnce: what it observed
    rbuf,    \* the scratch buffer of the Reader's framer (fr.rbuf), <<>> for nil
    dcl      \* the caller of WriteTo / ReadFrom: what it observed

vars == <<hx, rfr, wfr, pipe, rpos, closed, rcl, wcl, fwd, out, fcl, rbuf, dcl>>

defaultOptions ==
    [ReadByteOrder |-> BigEndian, WriteByteOrder |-> BigEndian,
     ReadProto |-> BinaryStream, WriteProto |-> BinaryStream,
     ReadLimit |-> 0, RetryDelay |-> -1]

\* NewReader / NewWriter.
NewReader(opts) == newFramer(TRUE, FALSE, opts)
NewWriter(opts) == newFramer(FALSE, TRUE, opts)

\* ------------------------------------------------ header codec on one length

\* Payload lengths the header codec is exercised on, as 64-bit values:
\* the size-class boundaries, 70000, 2^32, 2^56-1 and lengths over the ceiling.
HdrLengths ==
    { ToU64(0), ToU64(1), ToU64(2), ToU64(100), ToU64(253), ToU64(254),
      ToU64(255), ToU64(256), ToU64(4096), ToU64(65535), ToU64(65536),
      ToU64(65537), ToU64(70000), ToU64(16777215), ToU64(16777216),
      <<0, 0, 0, 0, 1, 0, 0, 0>>, <<1, 2, 3, 4, 5, 6, 7, 0>>,
      <<255, 255, 255, 255, 255, 255, 255, 0>>,
      <<0, 0, 0, 0, 0, 0, 0, 1>>, <<255, 255, 255, 255, 255, 255, 255, 127>> }

\* Headers as they may arrive on the wire (8 bytes are given; the reader
\* takes the lead byte and the extended-length bytes it announces).
RawHeaders ==
    { <<h0>> \o ext :
        h0 \in {0, 5, 253, 254, 255},
        ext \in { <<1, 0, 0, 0, 0, 0, 0>>, <<0, 1, 0, 0, 0, 0, 0>>,
                  <<0, 0, 0, 0, 1, 17, 112>>, <<112, 17, 1, 0, 0, 0, 0>>,
                  <<1, 2, 3, 4, 5, 6, 7>>, <<255, 255, 255, 255, 255, 255, 255>>,
                  <<0, 0, 0, 0, 0, 0, 0>> } }

HdrIdle == [stage |-> "idle"]

\* What the callers have observed before their first call.
RcInit == [buf |-> <<>>, n |-> 0, err |-> Nil, sum |-> 0,
           recv |-> <<>>, log |-> <<>>, off0 |-> 0, err0 |-> Nil,
           intr |-> 0]
WcInit == [cur |-> <<>>, arg |-> <<>>, n |-> 0, err |-> Nil, sum |-> 0,
           rej |-> FALSE, sent |-> <<>>, done |-> 0,
           mark |-> 0, calls |-> 0, off0 |-> 0, len0 |-> 0, err0 |-> Nil,
           intr |-> 0, log |-> <<>>]

\* state0, got0, woff0: the phase the last call started in, with the payload
\* bytes in the buffer and the offset of the writing framer at that moment;
\* reads, taken: the Read calls it made on the source and the bytes they
\* returned; writes, acc: the Write calls it made on the sink and the bytes
\* they accepted.
FcInit == [n |-> 0, err |-> Nil, done |-> 0, rcut |-> 0, wcut |-> 0,
           rcomb |-> FALSE, state0 |-> 0, got0 |-> 0, woff0 |-> 0,
           reads |-> 0, taken |-> 0, writes |-> 0, acc |-> 0]

\* What the caller of WriteTo / ReadFrom has observed before its first call.
\* wlog: the Write calls the sink of WriteTo has answered.
DcInit == [calls |-> 0, n |-> 0, err |-> Nil, sum |-> 0,
           rcut |-> 0, wcut |-> 0, chunks |-> <<>>, src |-> <<>>,
           wlog |-> <<>>]

\* WithReadLimit of the Forwarder: the capacity of its payload buffer.
FwdReadLimit == 254

\* writeStream on a payload of length hx.L, up to the header it emits.
HdrWrite ==
    /\ hx.stage = "new"
    /\ LET hdrSize == frameHeaderLen + WriteExLen(hx.L)
       IN  hx' = IF WriteTooLong(hx.L)
                    THEN [hx EXCEPT !.stage = "written", !.err = ErrTooLong]
                    ELSE [hx EXCEPT !.stage = "written",
                                    !.header = FillHeader(@, hx.wbo, hx.L),
                                    !.hdrSize = hdrSize]
    /\ UNCHANGED <<rfr, wfr, pipe, rpos, closed, rcl, wcl, fwd, out, fcl, rbuf, dcl>>

\* readStream on the emitted (or given) header: steps 1) to 4).
HdrRead ==
    /\ \/ hx.stage = "written" /\ hx.err = Nil
       \/ hx.stage = "raw"
    /\ LET exLen == ReadExLen(hx.header[1])
           scratch == CopyAt(Zeros(8), 0, Slice(hx.header, 0, frameHeaderLen + exLen))
       IN  hx' = [hx EXCEPT !.stage = "read",
                            !.from = hx.stage,
                            !.scratch = scratch,
                            !.exLen = exLen,
                            !.length = ParseLength(scratch, hx.rbo, exLen)]
    /\ UNCHANGED <<rfr, wfr, pipe, rpos, closed, rcl, wcl, fwd, out, fcl, rbuf, dcl>>

HdrState(stage, L, header, wbo, rbo) ==
    [stage |-> stage, from |-> stage, L |-> L, wbo |-> wbo, rbo |-> rbo,
     header |-> header, hdrSize |-> 0, err |-> Nil,
     scratch |-> Zeros(8), exLen |-> 0, length |-> ToU64(0)]

InitHdr ==
    /\ \E wbo \in ByteOrders, rbo \in ByteOrders :
          \/ \E L \in HdrLengths : hx = HdrState("new", L, Zeros(8), wbo, rbo)
          \/ \E h \in RawHeaders :
                wbo = BigEndian /\ hx = HdrState("raw", ToU64(0), h, wbo, rbo)
    /\ rfr = NewReader(defaultOptions)
    /\ wfr = NewWriter(defaultOptions)
    /\ pipe = <<>>
    /\ rpos = 0
    /\ closed = FALSE
    /\ rcl = RcInit
    /\ wcl = WcInit
    /\ fwd = NewForwarder([defaultOptions EXCEPT !.ReadLimit = FwdReadLimit])
    /\ out = <<>>
    /\ fcl = FcInit
    /\ rbuf = <<>>
    /\ dcl = DcInit

NextHdr == HdrWrite \/ HdrRead

SpecHdr == InitHdr /\ [][NextHdr]_vars

\* ----------------------------------------------- Writer -> pipe -> Reader

\* Bounds of the model.
MaxLen == 2      \* longest payload of the one-byte header class
MaxMsgs == 2     \* messages written per behaviour
MaxIntr == 2     \* calls whose transport is cut short
MaxChunk == 4    \* most bytes a cut-short transport moves in one call

\* Payloads: bytes that differ from one position to the next and from one
\* message to the next, so that a lost, repeated or misplaced byte shows.
Pay(len, idx) == SubSeq([i \in 1..len |-> 16 * idx + i], 1, len)
LongBytes ==
    SubSeq([i \in 1..(framePayloadMaxLen8Bits + 1) |-> 100 + (i % 7)],
           1, framePayloadMaxLen8Bits + 1)
LongPayload(idx) == <<200 + idx>> \o Tail(LongBytes)
Payloads(idx) == {Pay(len, idx) : len \in 0..MaxLen} \cup {LongPayload(idx)}

\* Buffer sizes a caller of Read may bring.
BufSizes == {MaxLen, framePayloadMaxLen8Bits + 1}

Signals == {ErrWouldBlock, ErrMore}

\* Calls so far whose transport was cut short.
Interrupted ==
    wcl.intr + rcl.intr + fcl.rcut + fcl.wcut + dcl.rcut + dcl.wcut

\* A transport that is not cut short during a call moves every byte.
Whole(p) == Len(p) + 8

\* The caller of Write after a call that returned r; room is what the
\* transport accepted during the call.
WriteReturn(p, room, r) ==
    LET inflight == wfr.offset > 0
        started == ~inflight /\ (r.fr.offset > 0 \/ r.err = Nil)
    IN  /\ r.err # Hang
        /\ wfr' = r.fr
        /\ pipe' = pipe \o r.io.acc
        /\ wcl' = [cur |-> IF inflight THEN wcl.cur ELSE p,
                   arg |-> p,
                   n |-> r.n, err |-> r.err,
                   sum |-> (IF inflight THEN wcl.sum ELSE 0) + r.n,
                   rej |-> inflight /\ (wcl.rej \/ Len(p) # Len(wcl.cur)),
                   sent |-> IF started THEN Append(wcl.sent, p) ELSE wcl.sent,
                   done |-> wcl.done + (IF r.err = Nil THEN 1 ELSE 0),
                   mark |-> IF inflight THEN wcl.mark ELSE Len(pipe),
                   calls |-> Len(r.io.log),
                   off0 |-> wfr.offset, len0 |-> wfr.length, err0 |-> wcl.err,
                   intr |-> wcl.intr + (IF room < Whole(p) THEN 1 ELSE 0),
                   log |-> r.io.log]
        /\ UNCHANGED <<hx, rfr, rpos, closed, rcl, fwd, out, fcl, rbuf, dcl>>

\* Writer.Write(p): one call, with what the transport does during the call:
\* it accepts room bytes and then answers end, together with the short count
\* (comb) or on the following call of Write.
Write(p, room, end, comb) ==
    /\ ~closed
    /\ WriteReturn(p, room, write(wfr, NewSink(room, end, comb, 0), p))

\* What a cut-short transport may do during one call.
CutShort ==
    IF Interrupted < MaxIntr
        THEN (0..MaxChunk) \X BOOLEAN
        ELSE {}

\* A call of Write for the next message; the transport takes it whole or is
\* cut short.
WriteCall ==
    /\ wfr.offset = 0
    /\ wcl.err = Nil
    /\ Len(wcl.sent) < MaxMsgs
    /\ \E p \in Payloads(Len(wcl.sent) + 1) :
          \/ Write(p, Whole(p), ErrWouldBlock, TRUE)
          \/ \E c \in CutShort : Write(p, c[1], ErrWouldBlock, c[2])

\* A call of Write after a call that did not complete its message: the same
\* message again, or a message of another length.
WriteRetry ==
    /\ wcl.err # Nil
    /\ \E p \in {wcl.cur} \cup
                {q \in Payloads(Len(wcl.sent)) : wfr.offset > 0 /\ Len(q) # Len(wcl.cur)} :
          \/ Write(p, Whole(p), ErrWouldBlock, TRUE)
          \/ \E c \in CutShort : Write(p, c[1], ErrWouldBlock, c[2])

\* The writing end of the pipe is closed, possibly in the middle of a frame.
Close ==
    /\ ~closed
    /\ closed' = TRUE
    /\ UNCHANGED <<hx, rfr, wfr, pipe, rpos, rcl, wcl, fwd, out, fcl, rbuf, dcl>>

\* The caller of Read after a call that returned r; avail is what the
\* transport had to deliver during the call.
ReadReturn(avail, r) ==
    LET sum == (IF rfr.offset = 0 THEN 0 ELSE rcl.sum) + r.n
    IN  /\ r.err # Hang
        /\ rfr' = r.fr
        /\ rpos' = rpos + (avail - Len(r.io.data))
        /\ rcl' = [buf |-> r.p, n |-> r.n, err |-> r.err,
                   sum |-> sum,
                   recv |-> IF r.err = Nil
                               THEN Append(rcl.recv, SubSeq(r.p, 1, sum))
                               ELSE rcl.recv,
                   log |-> r.io.log,
                   off0 |-> rfr.offset, err0 |-> rcl.err,
                   intr |-> rcl.intr + (IF avail < Len(pipe) - rpos THEN 1 ELSE 0)]
        /\ UNCHANGED <<hx, wfr, pipe, closed, wcl, fwd, out, fcl, rbuf, dcl>>

\* The buffer the caller of Read brings: after a would-block or more-to-come
\* the same buffer again, otherwise a fresh one of size bytes.
ReadBuf(size) == IF rcl.err \in Signals THEN rcl.buf ELSE Zeros(size)

\* Reader.Read(buf): one call, with what the transport does during the call:
\* it delivers avail bytes of the pipe and then answers end (EOF at the end of
\* the closed pipe), together with the last bytes (comb) or on the following
\* call of Read.
Read(size, avail, end, comb) ==
    /\ closed
    /\ rcl.err \in Signals => size = Len(rcl.buf)
    /\ (end = EOF) <=> (avail = Len(pipe) - rpos)
    /\ ReadReturn(avail,
                  read(rfr, NewSource(SubSeq(pipe, rpos + 1, rpos + avail), end, comb, 0),
                       ReadBuf(size)))

ReadCall ==
    \E size \in BufSizes, comb \in BOOLEAN :
       \/ Read(size, Len(pipe) - rpos, EOF, comb)
       \/ \E avail \in 0..Min(MaxChunk, Len(pipe) - rpos - 1) :
             /\ Interrupted < MaxIntr
             /\ Read(size, avail, ErrWouldBlock, comb)

Init ==
    /\ hx = HdrIdle
    /\ \E bo \in ByteOrders :
          LET opts == [defaultOptions EXCEPT !.ReadByteOrder = bo,
                                            !.WriteByteOrder = bo]
          IN  /\ rfr = NewReader(opts)
              /\ wfr = NewWriter(opts)
              /\ fwd = NewForwarder([opts EXCEPT !.ReadLimit = FwdReadLimit])
    /\ pipe = <<>>
    /\ rpos = 0
    /\ closed = FALSE
    /\ rcl = RcInit
    /\ wcl = WcInit
    /\ out = <<>>
    /\ fcl = FcInit
    /\ rbuf = <<>>
    /\ dcl = DcInit

\* The Writer writes its messages, the last one possibly cut short, and
\* closes; the Reader then reads what arrives.
Next == WriteCall \/ Close \/ ReadCall

Spec == Init /\ [][Next]_vars

\* The Writer alone, resuming the calls its transport cut short.
NextW == WriteCall \/ WriteRetry

SpecW == Init /\ [][NextW]_vars

\* Read limits the Reader may be built with (WithReadLimit).
ReadLimits == {1, MaxLen}

\* As Init, the Reader built with a read limit.
InitLim ==
    /\ hx = HdrIdle
    /\ \E bo \in ByteOrders, limit \in ReadLimits :
          LET opts == [defaultOptions EXCEPT !.ReadByteOrder = bo,
                                            !.WriteByteOrder = bo]
          IN  /\ rfr = NewReader([opts EXCEPT !.ReadLimit = limit])
              /\ wfr = NewWriter(opts)
              /\ fwd = NewForwarder([opts EXCEPT !.ReadLimit = FwdReadLimit])
    /\ pipe = <<>>
    /\ rpos = 0
    /\ closed = FALSE
    /\ rcl = RcInit
    /\ wcl = WcInit
    /\ out = <<>>
    /\ fcl = FcInit
    /\ rbuf = <<>>
    /\ dcl = DcInit

\* The Writer writes and closes; a Reader with a read limit reads.
SpecLim == InitLim /\ [][Next]_vars

\* A call of Write that the transport takes whole.
Send ==
    /\ wfr.offset = 0
    /\ Len(wcl.sent) < MaxMsgs
    /\ \E p \in Payloads(Len(wcl.sent) + 1) : Write(p, Whole(p), ErrWouldBlock, TRUE)

\* What a cut-short transport of the Forwarder may do during one call: the
\* bytes it moves, the signal it answers, together with the last bytes or on
\* the following call.
FwdCuts ==
    IF Interrupted < MaxIntr
        THEN (0..MaxChunk) \X Signals \X BOOLEAN
        ELSE {}

\* The caller of ForwardOnce after a call that returned r; avail is what the
\* source had to deliver and room what the sink accepted during the call.
ForwardReturn(avail, room, r) ==
    /\ r.err # Hang
    /\ fwd' = r.f
    /\ rpos' = rpos + (avail - Len(r.t.data))
    /\ out' = out \o r.s.acc
    /\ fcl' = [n |-> r.n, err |-> r.err,
               done |-> fcl.done + (IF r.err = Nil THEN 1 ELSE 0),
               rcut |-> fcl.rcut + (IF avail < Len(pipe) - rpos THEN 1 ELSE 0),
               wcut |-> fcl.wcut + (IF room < FwdReadLimit + 8 THEN 1 ELSE 0),
               rcomb |-> fcl.rcomb \/
                         \E i \in 1..Len(r.t.log) :
                            r.t.log[i].n > 0 /\ r.t.log[i].err \in Signals,
               state0 |-> fwd.state, got0 |-> fwd.got, woff0 |-> fwd.ww.offset,
               reads |-> Len(r.t.log), taken |-> avail - Len(r.t.data),
               writes |-> Len(r.s.log), acc |-> Len(r.s.acc)]
    /\ UNCHANGED <<hx, rfr, wfr, pipe, closed, rcl, wcl, rbuf, dcl>>

\* Forwarder.ForwardOnce: one call, with what the two transports do during
\* the call.  The source delivers avail bytes of the pipe and then answers
\* rend; the sink accepts room bytes and then answers wend.
Forward(avail, rend, rcomb, room, wend, wcomb) ==
    /\ closed
    /\ (rend = EOF) <=> (avail = Len(pipe) - rpos)
    /\ ForwardReturn(avail, room,
                     ForwardOnce(fwd,
                                 NewSource(SubSeq(pipe, rpos + 1, rpos + avail),
                                           rend, rcomb, 0),
                                 NewSink(room, wend, wcomb, 0)))

ForwardCall ==
    LET have == Len(pipe) - rpos
        whole == FwdReadLimit + 8
    IN  \/ Forward(have, EOF, TRUE, whole, ErrWouldBlock, TRUE)
        \/ Forward(have, EOF, FALSE, whole, ErrWouldBlock, TRUE)
        \/ \E c \in FwdCuts :
              /\ c[1] < have
              /\ Forward(c[1], c[2], c[3], whole, ErrWouldBlock, TRUE)
        \/ \E c \in FwdCuts, eofc \in BOOLEAN :
              Forward(have, EOF, eofc, c[1], c[2], c[3])

\* The Writer writes whole frames and closes; the Forwarder relays them to
\* its sink.
NextFwd == Send \/ Close \/ ForwardCall

SpecFwd == Init /\ [][NextFwd]_vars

\* The caller of WriteTo after a call that returned r; avail is what the
\* source had to deliver and room what the sink accepted during the call.
DrainReturn(avail, room, r) ==
    /\ r.err # Hang
    /\ rfr' = r.fr
    /\ rbuf' = r.rbuf
    /\ rpos' = rpos + (avail - Len(r.t.data))
    /\ out' = out \o r.s.acc
    /\ dcl' = [dcl EXCEPT !.calls = 1, !.n = r.n, !.err = r.err,
                          !.sum = @ + r.n, !.wlog = @ \o r.s.log,
                          !.rcut = @ + (IF avail < Len(pipe) - rpos THEN 1 ELSE 0),
                          !.wcut = @ + (IF room < Len(pipe) THEN 1 ELSE 0)]
    /\ UNCHANGED <<hx, wfr, pipe, closed, rcl, wcl, fwd, fcl>>

\* Reader.WriteTo(dst): one call, with what the two transports do during the
\* call.  The source delivers avail bytes of the pipe and then answers rend;
\* the sink accepts room bytes and then answers wend.
Drain(avail, rend, rcomb, room, wend, wcomb) ==
    /\ closed
    /\ (rend = EOF) <=> (avail = Len(pipe) - rpos)
    /\ DrainReturn(avail, room,
                   WriteTo(rfr, rbuf,
                           NewSource(SubSeq(pipe, rpos + 1, rpos + avail),
                                     rend, rcomb, 0),
                           NewSink(room, wend, wcomb, 0)))

DrainCall ==
    \/ \E eofc \in BOOLEAN :
          Drain(Len(pipe) - rpos, EOF, eofc, Len(pipe), ErrWouldBlock, TRUE)
    \/ \E c \in FwdCuts :
          /\ c[1] < Len(pipe) - rpos
          /\ Drain(c[1], c[2], c[3], Len(pipe), ErrWouldBlock, TRUE)
    \/ \E c \in FwdCuts, eofc \in BOOLEAN :
          /\ c[1] < Len(pipe)
          /\ Drain(Len(pipe) - rpos, EOF, eofc, c[1], c[2], c[3])

\* As Init, the Reader built with the read limit that sizes its scratch
\* buffer.
InitDrain ==
    /\ hx = HdrIdle
    /\ \E bo \in ByteOrders :
          LET opts == [defaultOptions EXCEPT !.ReadByteOrder = bo,
                                            !.WriteByteOrder = bo]
          IN  /\ rfr = NewReader([opts EXCEPT !.ReadLimit = FwdReadLimit])
              /\ wfr = NewWriter(opts)
              /\ fwd = NewForwarder([opts EXCEPT !.ReadLimit = FwdReadLimit])
    /\ pipe = <<>>
    /\ rpos = 0
    /\ closed = FALSE
    /\ rcl = RcInit
    /\ wcl = WcInit
    /\ out = <<>>
    /\ fcl = FcInit
    /\ rbuf = <<>>
    /\ dcl = DcInit

\* The Writer writes whole frames and closes; WriteTo drains them to a sink.
NextDrain == Send \/ Close \/ DrainCall

SpecDrain == InitDrain /\ [][NextDrain]_vars

\* Chunks the source of ReadFrom hands out, chunk idx being the idx-th.
Chunks(idx) == {Pay(len, idx) : len \in 1..MaxLen} \cup {LongPayload(idx)}

ChunkSeqs ==
    UNION {[1..k -> UNION {Chunks(i) : i \in 1..MaxMsgs}] : k \in 0..MaxMsgs}

\* A sink that is not cut short during a call of ReadFrom takes every frame.
FillWhole == MaxMsgs * Whole(LongBytes)

\* The caller of ReadFrom after a call that returned r; room is what the
\* sink accepted during the call.
FillReturn(room, r) ==
    /\ r.err # Hang
    /\ wfr' = r.fr
    /\ pipe' = pipe \o r.s.acc
    /\ dcl' = [dcl EXCEPT !.calls = 1, !.n = r.n, !.err = r.err,
                          !.sum = @ + r.n,
                          !.wcut = @ + (IF room < FillWhole THEN 1 ELSE 0),
                          !.chunks = @ \o SubSeq(dcl.src, 1,
                                                 Len(dcl.src) - Len(r.c.chunks)),
                          !.src = r.c.chunks]
    /\ UNCHANGED <<hx, rfr, rpos, closed, rcl, wcl, fwd, out, fcl, rbuf>>

\* Writer.ReadFrom(src): one call, with what the sink does during the call:
\* it accepts room bytes and then answers end.  The source is at its end
\* once its chunks are exhausted.
Fill(room, end, comb) ==
    /\ dcl.err # Nil \/ dcl.calls = 0 \/ dcl.src # <<>>
    /\ FillReturn(room,
                  ReadFrom(wfr, NewChunks(dcl.src, EOF),
                           NewSink(room, end, comb, 0)))

FillCall ==
    \/ Fill(FillWhole, ErrWouldBlock, TRUE)
    \/ \E c \in FwdCuts : Fill(c[1], c[2], c[3])

\* As Init, with the chunks the source of ReadFrom will hand out.
InitFill ==
    /\ hx = HdrIdle
    /\ \E bo \in ByteOrders :
          LET opts == [defaultOptions EXCEPT !.ReadByteOrder = bo,
                                            !.WriteByteOrder = bo]
          IN  /\ rfr = NewReader(opts)
              /\ wfr = NewWriter(opts)
              /\ fwd = NewForwarder([opts EXCEPT !.ReadLimit = FwdReadLimit])
    /\ pipe = <<>>
    /\ rpos = 0
    /\ closed = FALSE
    /\ rcl = RcInit
    /\ wcl = WcInit
    /\ out = <<>>
    /\ fcl = FcInit
    /\ rbuf = <<>>
    /\ \E src \in ChunkSeqs :
          /\ \A i \in 1..Len(src) : src[i] \in Chunks(i)
          /\ dcl = [DcInit EXCEPT !.src = src]

\* The Writer fills its sink from a chunk source, call after call.
NextFill == FillCall

SpecFill == InitFill /\ [][NextFill]_vars

\* What the caller of ForwardOnce on packets has observed before its first
\* call.  fin: the packet the source returned together with io.EOF; post:
\* calls made since the Forwarder marked the end of its source; sinkCalls:
\* calls of the sink's Write during the last call; part: the bytes of the
\* next packet the source has returned so far, each time with a signal;
\* asked: the bytes the first Read of the last call asked the source for.
PcInit == [n |-> 0, err |-> Nil, done |-> 0, rcut |-> 0, wcut |-> 0,
           fin |-> <<>>, post |-> 0, sinkCalls |-> 0, part |-> <<>>,
           state0 |-> 0, got0 |-> 0, woff0 |-> 0,
           reads |-> 0, taken |-> 0, writes |-> 0, acc |-> 0, asked |-> 0]

\* What the source has still to return of the packet it is at.
PacketRest ==
    IF rpos < Len(pipe)
        THEN SubSeq(pipe[rpos + 1], Len(fcl.part) + 1, Len(pipe[rpos + 1]))
        ELSE <<>>

\* Calls of ForwardOnce made after the end of the source was reported.
MaxPost == 2

PacketProtocols == {SeqPacket, Datagram}

\* The caller of ForwardOnce on packets after a call that returned r; pkt is
\* the packet the source had ready (none: the empty sequence) and room what
\* the sink accepted during the call.
PacketReturn(pkt, room, r) ==
    LET took == Len(r.t.data) < Len(pkt)
        last == took /\ Len(pkt) = Len(PacketRest)
    IN  /\ r.err # Hang
        /\ fwd' = r.f
        /\ rpos' = rpos + (IF last THEN 1 ELSE 0)
        /\ out' = IF r.s.acc # <<>> THEN Append(out, r.s.acc) ELSE out
        /\ fcl' = [n |-> r.n, err |-> r.err,
                   done |-> fcl.done + (IF r.err = Nil THEN 1 ELSE 0),
                   rcut |-> fcl.rcut + (IF Len(pkt) < Len(PacketRest) THEN 1 ELSE 0),
                   wcut |-> fcl.wcut + (IF room < FwdReadLimit THEN 1 ELSE 0),
                   fin |-> IF took /\ r.t.log[1].err = EOF
                              THEN fcl.part \o pkt ELSE fcl.fin,
                   post |-> IF fwd.state = 0 /\ fwd.eofPending
                               THEN fcl.post + 1 ELSE 0,
                   sinkCalls |-> Len(r.s.log),
                   part |-> IF last THEN <<>>
                            ELSE IF took THEN fcl.part \o pkt ELSE fcl.part,
                   state0 |-> fwd.state, got0 |-> fwd.got, woff0 |-> fwd.ww.offset,
                   reads |-> Len(r.t.log), taken |-> Len(pkt) - Len(r.t.data),
                   writes |-> Len(r.s.log), acc |-> Len(r.s.acc),
                   asked |-> IF r.t.log # <<>> THEN r.t.log[1].want ELSE 0]
        /\ UNCHANGED <<hx, rfr, wfr, pipe, closed, rcl, wcl, rbuf, dcl>>

\* ForwardOnce on packets: one call.  The source has the packet pkt ready
\* (or none) and answers rend, together with the packet (rcomb) or on the
\* following Read; the sink accepts room bytes and then answers wend.
PacketForward(pkt, rend, rcomb, room, wend, wcomb) ==
    /\ fcl.post < MaxPost
    /\ PacketReturn(pkt, room,
                    ForwardOnce(fwd, NewSource(pkt, rend, rcomb, 0),
                                NewSink(room, wend, wcomb, 0)))

\* The source of packets during one call: the next packet of the pipe, the
\* last one together with io.EOF (eofc) or followed by it; io.EOF once the
\* pipe is exhausted.
PacketReady(eofc, room, wend, wcomb) ==
    IF rpos < Len(pipe)
        THEN IF rpos + 1 = Len(pipe)
                 THEN PacketForward(PacketRest, EOF, eofc, room, wend, wcomb)
                 ELSE PacketForward(PacketRest, ErrWouldBlock, FALSE,
                                    room, wend, wcomb)
        ELSE PacketForward(<<>>, EOF, FALSE, room, wend, wcomb)

PacketCall ==
    \/ \E eofc \in BOOLEAN : PacketReady(eofc, FwdReadLimit, ErrWouldBlock, TRUE)
    \/ \E sig \in Signals :
          /\ Interrupted < MaxIntr
          /\ rpos < Len(pipe)
          /\ PacketForward(<<>>, sig, FALSE, FwdReadLimit, ErrWouldBlock, TRUE)
    \/ \E c \in FwdCuts, eofc \in BOOLEAN : PacketReady(eofc, c[1], c[2], c[3])

\* A Forwarder between two packet transports, with the packets its source
\* will deliver.
InitPacket ==
    /\ hx = HdrIdle
    /\ \E pr \in PacketProtocols :
          LET opts == [defaultOptions EXCEPT !.ReadProto = pr, !.WriteProto = pr]
          IN  /\ rfr = NewReader(opts)
              /\ wfr = NewWriter(opts)
              /\ fwd = NewForwarder([opts EXCEPT !.ReadLimit = FwdReadLimit])
    /\ \E src \in ChunkSeqs :
          /\ \A i \in 1..Len(src) : src[i] \in Chunks(i)
          /\ pipe = src
    /\ rpos = 0
    /\ closed = TRUE
    /\ rcl = RcInit
    /\ wcl = WcInit
    /\ out = <<>>
    /\ fcl = PcInit
    /\ rbuf = <<>>
    /\ dcl = DcInit

NextPacket == PacketCall

SpecPacket == InitPacket /\ [][NextPacket]_vars

\* Retry policies: WithNonblock, WithBlock (yield) and a positive
\* WithRetryDelay (sleep).
RetryDelays == {-1, 0, 1}

\* Zero-progress would-block answers a transport gives before it moves data.
MaxStall == 1

\* The byte after which a transport pauses with (n > 0, ErrWouldBlock).
MaxPause == 2

\* Messages written in a behaviour that tries the retry policies.
RetryMsgs == 1

\* What a transport answers once it stops moving bytes: a signal, or nothing
\* at all (a zero count with a nil error).
TransportEnds == {ErrWouldBlock, ErrMore, Nil}

\* Writer.Write(p) on a sink that first answers stall zero-progress
\* would-blocks, then accepts room bytes, then answers end.
WriteStalled(p, room, end, comb, stall, pause) ==
    /\ ~closed
    /\ WriteReturn(p, room,
                   write(wfr, Paused(NewSink(room, end, comb, stall), pause), p))

RetryWrite(p) ==
    \/ \E stall \in 0..MaxStall :
          WriteStalled(p, Whole(p), ErrWouldBlock, TRUE, stall, 0)
    \/ /\ Interrupted < MaxIntr
       /\ \E room \in 0..MaxChunk, end \in TransportEnds, comb \in BOOLEAN,
             stall \in 0..MaxStall, pause \in 0..MaxPause :
             /\ pause < room \/ pause = 0
             /\ WriteStalled(p, room, end, comb, stall, pause)

\* A call of Write for a new message.
RetryWriteCall ==
    /\ wfr.offset = 0
    /\ wcl.err = Nil
    /\ Len(wcl.sent) < RetryMsgs
    /\ \E p \in Payloads(Len(wcl.sent) + 1) : RetryWrite(p)

\* A call of Write with the same message after a call that did not complete
\* it.
RetryWriteResume ==
    /\ wcl.err # Nil
    /\ RetryWrite(wcl.cur)

\* The buffer the caller of Read brings: the same buffer again while a
\* message is in flight, otherwise a fresh one of size bytes.
RetryBuf(size) ==
    IF rfr.offset > 0 /\ Len(rcl.buf) = size THEN rcl.buf ELSE Zeros(size)

\* Reader.Read(buf) on a source that first answers stall zero-progress
\* would-blocks, then delivers avail bytes of the pipe, then answers end.
ReadStalled(size, avail, end, comb, stall, pause) ==
    /\ closed
    /\ (end = EOF) <=> (avail = Len(pipe) - rpos)
    /\ pause < avail \/ pause = 0
    /\ ReadReturn(avail,
                  read(rfr, Paused(NewSource(SubSeq(pipe, rpos + 1, rpos + avail),
                                             end, comb, stall), pause),
                       RetryBuf(size)))

\* The Reader brings a buffer that holds any message of the behaviour.
RetryReadCall ==
    \E comb \in BOOLEAN, stall \in 0..MaxStall :
       \/ ReadStalled(Len(LongBytes), Len(pipe) - rpos, EOF, comb, stall, 0)
       \/ \E avail \in 0..Min(MaxChunk, Len(pipe) - rpos - 1),
             end \in TransportEnds, pause \in 0..MaxPause :
             /\ Interrupted < MaxIntr
             /\ ReadStalled(Len(LongBytes), avail, end, comb, stall, pause)

\* The writing end is closed between two messages.
RetryClose ==
    /\ wfr.offset = 0
    /\ wcl.err = Nil
    /\ Close

\* As Init, Reader and Writer built with a retry policy.
InitRetry ==
    /\ hx = HdrIdle
    /\ \E delay \in RetryDelays :
          LET opts == [defaultOptions EXCEPT !.RetryDelay = delay]
          IN  /\ rfr = NewReader(opts)
              /\ wfr = NewWriter(opts)
              /\ fwd = NewForwarder([opts EXCEPT !.ReadLimit = FwdReadLimit])
    /\ pipe = <<>>
    /\ rpos = 0
    /\ closed = FALSE
    /\ rcl = RcInit
    /\ wcl = WcInit
    /\ out = <<>>
    /\ fcl = FcInit
    /\ rbuf = <<>>
    /\ dcl = DcInit

\* Writer and Reader under each retry policy, on transports that stall,
\* signal with or without progress, or return a zero count with a nil error.
NextRetry == RetryWriteCall \/ RetryWriteResume \/ RetryClose \/ RetryReadCall

SpecRetry == InitRetry /\ [][NextRetry]_vars

\* What the caller of Read on packets has observed before its first call.
\* pkt: the packet the source had ready during the last call.
PrInit == [calls |-> 0, buf |-> <<>>, pkt |-> <<>>, n |-> 0, err |-> Nil,
           log |-> <<>>, intr |-> 0]

\* Buffers the caller of Read on packets brings.
PacketBufSizes == {0, 1, MaxLen, framePayloadMaxLen8Bits + 1}

\* What a packet source answers with or after a packet, or when it has none.
PacketEnds == {ErrWouldBlock, ErrMore, Nil, EOF}

\* The caller of Read on packets after a call that returned r.
PacketReadReturn(pkt, r) ==
    /\ r.err # Hang
    /\ rfr' = r.fr
    /\ rpos' = rpos + (IF pkt # <<>> THEN 1 ELSE 0)
    /\ rcl' = [calls |-> 1, buf |-> r.p, pkt |-> pkt, n |-> r.n, err |-> r.err,
               log |-> r.io.log, intr |-> 0]
    /\ UNCHANGED <<hx, wfr, pipe, closed, wcl, fwd, out, fcl, rbuf, dcl>>

\* Reader.Read(buf) on packets: one call with a buffer of size bytes.  The
\* source has the packet pkt ready (or none) and answers end, together with
\* the packet (comb) or on the following Read.
PacketRead(size, pkt, end, comb) ==
    PacketReadReturn(pkt, read(rfr, NewSource(pkt, end, comb, 0), Zeros(size)))

PacketReadCall ==
    \E size \in PacketBufSizes, end \in PacketEnds :
       \/ /\ rpos < Len(pipe)
          /\ \E comb \in BOOLEAN : PacketRead(size, pipe[rpos + 1], end, comb)
       \/ PacketRead(size, <<>>, end, FALSE)

\* A Reader on a packet transport, non-block policy, with or without a read
\* limit, and the packets its source will deliver.
InitPacketRead ==
    /\ hx = HdrIdle
    /\ \E pr \in PacketProtocols, limit \in {0} \cup ReadLimits :
          LET opts == [defaultOptions EXCEPT !.ReadProto = pr, !.WriteProto = pr]
          IN  /\ rfr = NewReader([opts EXCEPT !.ReadLimit = limit])
              /\ wfr = NewWriter(opts)
              /\ fwd = NewForwarder([opts EXCEPT !.ReadLimit = FwdReadLimit])
    /\ \E src \in ChunkSeqs :
          /\ \A i \in 1..Len(src) : src[i] \in Chunks(i)
          /\ pipe = src
    /\ rpos = 0
    /\ closed = TRUE
    /\ rcl = PrInit
    /\ wcl = WcInit
    /\ out = <<>>
    /\ fcl = FcInit
    /\ rbuf = <<>>
    /\ dcl = DcInit

NextPacketRead == PacketReadCall

SpecPacketRead == InitPacketRead /\ [][NextPacketRead]_vars

\* The wire format as the specification states it, written independently of
\* FillHeader: header(n) is the lead byte n for n <= 253, 0xFE and n in two
\* bytes for n <= 65535, 0xFF and n in seven bytes above, in byte order bo.
Digits(n, k) == [i \in 1..k |-> (n \div (256 ^ (i - 1))) % 256]

CanonHeader(bo, n) ==
    IF n <= 253 THEN <<n>>
    ELSE IF n <= 65535
        THEN <<254>> \o (IF bo = LittleEndian THEN Digits(n, 2) ELSE Reverse(Digits(n, 2)))
    ELSE <<255>> \o (IF bo = LittleEndian THEN Digits(n, 4) \o <<0, 0, 0>>
                     ELSE <<0, 0, 0>> \o Reverse(Digits(n, 4)))

CanonFrame(bo, p) == CanonHeader(bo, Len(p)) \o p

RECURSIVE CanonWire(_, _)
CanonWire(bo, msgs) ==
    IF msgs = <<>> THEN <<>>
    ELSE CanonFrame(bo, Head(msgs)) \o CanonWire(bo, Tail(msgs))

\* A payload length over the 64KiB scratch buffer of WriteTo.
BigLength == 64 * 1024 + 1

\* Bytes a wire may lack at its end.
MaxDrop == 2

\* What the caller of WriteTo knows of a wire that was not written by the
\* Writer of the model: big tells that the header of a message of BigLength
\* bytes follows the frames, drop how many bytes the wire lacks at its end.
CapInit(big, drop) ==
    [calls |-> 0, n |-> 0, err |-> Nil, sum |-> 0, rcut |-> 0, wcut |-> 0,
     chunks |-> <<>>, src |-> <<>>, wlog |-> <<>>, big |-> big, drop |-> drop]

\* The wire of msgs, followed or not by the header of a message of BigLength
\* bytes.
CapWire(bo, msgs, big) ==
    CanonWire(bo, msgs) \o (IF big THEN CanonHeader(bo, BigLength) ELSE <<>>)

\* A Reader with or without a read limit on a wire that has ended: frames, a
\* header that declares more than any scratch buffer holds, a wire that
\* stops inside a frame.
InitCap ==
    /\ hx = HdrIdle
    /\ wfr = NewWriter(defaultOptions)
    /\ fwd = NewForwarder([defaultOptions EXCEPT !.ReadLimit = FwdReadLimit])
    /\ \E limit \in {0} \cup ReadLimits, k \in 0..MaxMsgs, big \in BOOLEAN,
          drop \in 0..MaxDrop :
       \E msgs \in [1..k -> UNION {Payloads(i) : i \in 1..MaxMsgs}] :
          /\ \A i \in 1..k : msgs[i] \in Payloads(i)
          /\ limit = 0 => big /\ k <= 1 /\ drop <= 1
          /\ rfr = NewReader([defaultOptions EXCEPT !.ReadLimit = limit])
          /\ drop <= Len(CapWire(BigEndian, msgs, big))
          /\ pipe = SubSeq(CapWire(BigEndian, msgs, big), 1,
                           Len(CapWire(BigEndian, msgs, big)) - drop)
          /\ wcl = [WcInit EXCEPT !.sent = msgs]
          /\ dcl = CapInit(big, drop)
    /\ rpos = 0
    /\ closed = TRUE
    /\ rcl = RcInit
    /\ out = <<>>
    /\ fcl = FcInit
    /\ rbuf = <<>>

\* The caller of WriteTo on packets after a call that returned r: the source
\* had the packet pkt ready (or none) and answered rend after it, the sink
\* accepted room bytes.
PacketDrainReturn(pkt, rend, room, r) ==
    /\ r.err # Hang
    /\ rfr' = r.fr
    /\ rbuf' = r.rbuf
    /\ rpos' = rpos + (IF pkt # <<>> THEN 1 ELSE 0)
    /\ out' = out \o r.s.acc
    /\ dcl' = [dcl EXCEPT !.calls = 1, !.n = r.n, !.err = r.err,
                          !.sum = @ + r.n, !.wlog = @ \o r.s.log,
                          !.src = <<rend>>,
                          !.rcut = @ + (IF rend \in Signals THEN 1 ELSE 0),
                          !.wcut = @ + (IF room < Len(pkt) THEN 1 ELSE 0)]
    /\ UNCHANGED <<hx, wfr, pipe, closed, rcl, wcl, fwd, fcl>>

\* Reader.WriteTo(dst) on packets: one call.  The source returns the packet
\* pkt (or has none) and answers rend, with the packet or on the following
\* Read; the sink accepts room bytes and then answers wend.
PacketDrain(pkt, rend, rcomb, room, wend, wcomb) ==
    /\ rend \in Signals => Interrupted < MaxIntr
    /\ (rend = EOF) => rpos + (IF pkt # <<>> THEN 1 ELSE 0) = Len(pipe)
    /\ PacketDrainReturn(pkt, rend, room,
                         WriteTo(rfr, rbuf, NewSource(pkt, rend, rcomb, 0),
                                 NewSink(room, wend, wcomb, 0)))

PacketDrainCall ==
    /\ preserveBoundary(rfr.rpr)
    /\ \E rend \in PacketEnds, rcomb \in BOOLEAN :
       \E pkt \in {<<>>} \cup (IF rpos < Len(pipe) THEN {pipe[rpos + 1]} ELSE {}) :
       \/ PacketDrain(pkt, rend, rcomb, Len(pkt), ErrWouldBlock, FALSE)
       \/ \E c \in FwdCuts :
             /\ c[1] < Len(pkt)
             /\ PacketDrain(pkt, rend, rcomb, c[1], c[2], c[3])

\* A Reader on a packet transport and the packets its source will deliver.
InitCapPacket ==
    /\ hx = HdrIdle
    /\ wfr = NewWriter(defaultOptions)
    /\ fwd = NewForwarder([defaultOptions EXCEPT !.ReadLimit = FwdReadLimit])
    /\ \E pr \in PacketProtocols :
          rfr = NewReader([defaultOptions EXCEPT !.ReadProto = pr])
    /\ \E k \in 0..MaxMsgs : pipe = [i \in 1..k |-> Pay(MaxLen, i)]
    /\ wcl = WcInit
    /\ dcl = CapInit(FALSE, 0)
    /\ rpos = 0
    /\ closed = TRUE
    /\ rcl = RcInit
    /\ out = <<>>
    /\ fcl = FcInit
    /\ rbuf = <<>>

\* WriteTo on a stream.
StreamDrainCall == ~preserveBoundary(rfr.rpr) /\ DrainCall

NextCap == StreamDrainCall \/ PacketDrainCall

SpecCap == (InitCap \/ InitCapPacket) /\ [][NextCap]_vars

\* A payload one byte longer than the scratch buffer of ReadFrom.
BigPayload == [i \in 1..(wbufSize + 1) |-> 76]

\* Messages Write starts before ReadFrom is called.
ResumePayloads == (Payloads(1) \ {<<>>}) \cup {BigPayload}

\* A sink that is not cut short takes whatever Write and ReadFrom emit.
ResumeWhole == Whole(BigPayload) + FillWhole

\* Writer.Write(p) on a sink that blocks after its first bytes.
ResumeWrite ==
    /\ wcl.sent = <<>>
    /\ wcl.err = Nil
    /\ \E p \in ResumePayloads, room \in 1..MaxChunk, comb \in BOOLEAN :
          Write(p, room, ErrWouldBlock, comb)

\* Writer.ReadFrom(src) on the Writer Write was called on.
ResumeFill ==
    /\ wcl.sent # <<>>
    /\ \/ Fill(ResumeWhole, ErrWouldBlock, TRUE)
       \/ \E c \in FwdCuts : Fill(c[1], c[2], c[3])

\* One Write whose sink blocks, then ReadFrom, call after call.
NextResume == ResumeWrite \/ ResumeFill

SpecResume == InitFill /\ [][NextResume]_vars

\* A Forwarder with or without a read limit on a wire that has ended: frames,
\* followed or not by a header that declares more than any buffer holds.  rfr
\* is a Reader built with the options of the Forwarder.
InitFwdCap ==
    /\ hx = HdrIdle
    /\ wfr = NewWriter(defaultOptions)
    /\ \E limit \in {0} \cup ReadLimits, k \in 0..MaxMsgs, big \in BOOLEAN :
       \E msgs \in [1..k -> UNION {Payloads(i) : i \in 1..MaxMsgs}] :
          /\ \A i \in 1..k : msgs[i] \in Payloads(i)
          /\ limit = 0 => big /\ k <= 1
          /\ rfr = NewReader([defaultOptions EXCEPT !.ReadLimit = limit])
          /\ fwd = NewForwarder([defaultOptions EXCEPT !.ReadLimit = limit])
          /\ pipe = CapWire(BigEndian, msgs, big)
          /\ wcl = [WcInit EXCEPT !.sent = msgs]
          /\ dcl = CapInit(big, 0)
    /\ rpos = 0
    /\ closed = TRUE
    /\ rcl = RcInit
    /\ out = <<>>
    /\ fcl = FcInit
    /\ rbuf = <<>>

NextFwdCap == ForwardCall

SpecFwdCap == InitFwdCap /\ [][NextFwdCap]_vars

\* ForwardOnce on a stream.
StreamForwardCall == ~preserveBoundary(fwd.rr.rpr) /\ ForwardCall

\* ForwardOnce on packets, the source returning whole packets.
PacketForwardCall == preserveBoundary(fwd.rr.rpr) /\ PacketCall

\* ForwardOnce on packets, the source returning the first bytes of what it
\* has left of a packet together with a signal, the rest on a later Read.
PacketPart ==
    /\ preserveBoundary(fwd.rr.rpr)
    /\ Interrupted < MaxIntr
    /\ \E k \in 1..MaxChunk, sig \in Signals :
          /\ k < Len(PacketRest)
          /\ PacketForward(SubSeq(PacketRest, 1, k), sig, TRUE,
                           FwdReadLimit, ErrWouldBlock, TRUE)

\* A Forwarder on a stream the Writer fills, or between two packet
\* transports whose source may return a packet in parts.
NextPhase ==
    Send \/ Close \/ StreamForwardCall \/ PacketForwardCall \/ PacketPart

SpecPhase == (Init \/ InitPacket) /\ [][NextPhase]_vars

\* The Writer writes its messages, retrying the calls its transport cut
\* short, and closes; the Reader reads what arrives.
NextCodec == WriteCall \/ WriteRetry \/ Close \/ ReadCall

SpecCodec == Init /\ [][NextCodec]_vars

\* A caller buffer of size bytes that differ from every payload byte, so
\* that the bytes Read leaves untouched show.
Marked(size) == SubSeq([i \in 1..(framePayloadMaxLen8Bits + 1) |-> 255], 1, size)

\* Reader.Read(buf) on the Reader that WriteTo was called on: the first
\* call brings a fresh buffer, a call after a signal the same buffer again.
SwitchRead(size, avail, end, comb) ==
    /\ closed
    /\ (end = EOF) <=> (avail = Len(pipe) - rpos)
    /\ ReadReturn(avail,
                  read(rfr, NewSource(SubSeq(pipe, rpos + 1, rpos + avail), end, comb, 0),
                       IF rcl.buf = <<>> THEN Marked(size) ELSE rcl.buf))

\* The caller goes from WriteTo to Read after a WriteTo that a signal
\* interrupted, and calls Read again while Read is interrupted.
SwitchReadCall ==
    /\ IF rcl.buf = <<>> THEN dcl.calls > 0 /\ dcl.err \in Signals
                         ELSE rcl.err \in Signals
    /\ \E size \in BufSizes, comb \in BOOLEAN :
          /\ rcl.buf # <<>> => size = Len(rcl.buf)
          /\ \/ SwitchRead(size, Len(pipe) - rpos, EOF, comb)
             \/ \E avail \in 0..Min(MaxChunk, Len(pipe) - rpos - 1) :
                   /\ Interrupted < MaxIntr
                   /\ SwitchRead(size, avail, ErrWouldBlock, comb)

\* WriteTo until the caller goes over to Read.
SwitchDrainCall == rcl.buf = <<>> /\ DrainCall

NextSwitch == Send \/ Close \/ SwitchDrainCall \/ SwitchReadCall

SpecSwitch == InitDrain /\ [][NextSwitch]_vars

\* Packets of the source of a Forwarder with a read limit: within the limit
\* and up to MaxOver bytes over it.
MaxOver == 2

\* A packet Forwarder with a read limit, with the packets its source will
\* deliver, some of them longer than the limit.
InitTrunc ==
    /\ hx = HdrIdle
    /\ \E pr \in PacketProtocols, limit \in ReadLimits :
          LET opts == [defaultOptions EXCEPT !.ReadProto = pr, !.WriteProto = pr]
          IN  /\ rfr = NewReader(opts)
              /\ wfr = NewWriter(opts)
              /\ fwd = NewForwarder([opts EXCEPT !.ReadLimit = limit])
    /\ \E k \in 1..MaxMsgs :
          \E lens \in [1..k -> 1..(MaxLen + MaxOver)] :
             pipe = [i \in 1..k |-> Pay(lens[i], i)]
    /\ rpos = 0
    /\ closed = TRUE
    /\ rcl = RcInit
    /\ wcl = WcInit
    /\ out = <<>>
    /\ fcl = PcInit
    /\ rbuf = <<>>
    /\ dcl = DcInit

NextTrunc == PacketCall

SpecTrunc == InitTrunc /\ [][NextTrunc]_vars

\* NewReadWriter: one framer serves the Reader and the Writer.
NewReadWriter(opts) == newFramer(TRUE, TRUE, opts)

\* The caller of ReadWriter.Write after a call that returned r: the framer
\* r.fr is the framer of both directions.
RwWriteReturn(p, room, r) ==
    LET retry == wcl.err \in Signals
    IN  /\ r.err # Hang
        /\ wfr' = r.fr
        /\ rfr' = r.fr
        /\ pipe' = pipe \o r.io.acc
        /\ wcl' = [wcl EXCEPT !.cur = p, !.arg = p, !.n = r.n, !.err = r.err,
                              !.sum = (IF retry THEN @ ELSE 0) + r.n,
                              !.sent = IF retry THEN @ ELSE Append(@, p),
                              !.done = @ + (IF r.err = Nil THEN 1 ELSE 0),
                              !.calls = Len(r.io.log),
                              !.off0 = wfr.offset, !.len0 = wfr.length,
                              !.err0 = wcl.err,
                              !.intr = @ + (IF room < Whole(p) THEN 1 ELSE 0),
                              !.log = r.io.log]
        /\ UNCHANGED <<hx, rpos, closed, rcl, fwd, out, fcl, rbuf, dcl>>

\* ReadWriter.Write(p): the next message, or the same message again after a
\* signal; the transport takes it whole or is cut short.
RwWriteCall ==
    /\ wcl.err \in Signals \cup {Nil}
    /\ \E p \in IF wcl.err \in Signals THEN {wcl.cur}
                ELSE IF Len(wcl.sent) < MaxMsgs
                         THEN Payloads(Len(wcl.sent) + 1) ELSE {} :
          \/ RwWriteReturn(p, Whole(p),
                           write(wfr, NewSink(Whole(p), ErrWouldBlock, TRUE, 0), p))
          \/ \E c \in CutShort :
                RwWriteReturn(p, c[1],
                              write(wfr, NewSink(c[1], ErrWouldBlock, c[2], 0), p))

\* The caller of ReadWriter.Read after a call that returned r; avail is what
\* the transport had to deliver during the call.
RwReadReturn(avail, r) ==
    LET sum == (IF rcl.err \in Signals THEN rcl.sum ELSE 0) + r.n
    IN  /\ r.err # Hang
        /\ rfr' = r.fr
        /\ wfr' = r.fr
        /\ rpos' = rpos + (avail - Len(r.io.data))
        /\ rcl' = [buf |-> r.p, n |-> r.n, err |-> r.err,
                   sum |-> sum,
                   recv |-> IF r.err = Nil
                               THEN Append(rcl.recv, SubSeq(r.p, 1, Min(sum, Len(r.p))))
                               ELSE rcl.recv,
                   log |-> r.io.log,
                   off0 |-> rfr.offset, err0 |-> rcl.err,
                   intr |-> rcl.intr + (IF avail < Len(pipe) - rpos THEN 1 ELSE 0)]
        /\ UNCHANGED <<hx, pipe, closed, wcl, fwd, out, fcl, rbuf, dcl>>

\* ReadWriter.Read(buf) on the bytes the peer has sent back so far (the
\* bytes written, looped back): the transport delivers them all or is cut
\* short, and answers ErrWouldBlock once it has no more.
RwReadCall ==
    /\ rcl.err \in Signals \cup {Nil}
    /\ Len(rcl.recv) < Len(wcl.sent)
    /\ \E comb \in BOOLEAN, avail \in 0..(Len(pipe) - rpos) :
          /\ avail < Len(pipe) - rpos => Interrupted < MaxIntr /\ avail <= MaxChunk
          /\ RwReadReturn(avail,
                read(rfr, NewSource(SubSeq(pipe, rpos + 1, rpos + avail),
                                    ErrWouldBlock, comb, 0),
                     IF rcl.err \in Signals THEN rcl.buf
                     ELSE Zeros(framePayloadMaxLen8Bits + 1)))

\* A ReadWriter whose Reader reads what its Writer wrote.
InitRw ==
    /\ hx = HdrIdle
    /\ \E bo \in ByteOrders :
          LET opts == [defaultOptions EXCEPT !.ReadByteOrder = bo,
                                            !.WriteByteOrder = bo]
          IN  /\ rfr = NewReadWriter(opts)
              /\ wfr = NewReadWriter(opts)
              /\ fwd = NewForwarder([opts EXCEPT !.ReadLimit = FwdReadLimit])
    /\ pipe = <<>>
    /\ rpos = 0
    /\ closed = FALSE
    /\ rcl = RcInit
    /\ wcl = WcInit
    /\ out = <<>>
    /\ fcl = FcInit
    /\ rbuf = <<>>
    /\ dcl = DcInit

NextRw == RwWriteCall \/ RwReadCall

SpecRw == InitRw /\ [][NextRw]_vars

\* A message of the length of p whose every byte differs from the byte of p
\* at its place.
Other(p) == SubSeq([i \in 1..Len(p) |-> (p[i] + 64) % 256], 1, Len(p))

\* A call of Write after a call that left a frame in flight, with another
\* message of the same length in place of the message the frame was begun
\* with.
WriteSwap ==
    /\ wcl.err # Nil
    /\ wfr.offset > 0
    /\ wcl.cur # <<>>
    /\ \/ Write(Other(wcl.cur), Whole(wcl.cur), ErrWouldBlock, TRUE)
       \/ \E c \in CutShort : Write(Other(wcl.cur), c[1], ErrWouldBlock, c[2])

NextSwap == WriteCall \/ WriteRetry \/ WriteSwap

\* A Writer whose caller resumes an interrupted message with the same
\* message, with a message of another length, or with another message of the
\* same length.
SpecSwap == Init /\ [][NextSwap]_vars

\* Zero-progress would-blocks counted during one call of Read.
MaxWait == 2

\* What the caller of a Read that may wait inside readOnce has observed.
\* pc: "idle" before the first call, "reading" while a call is inside
\* readStream, "returned" after it; n: the payload bytes of the call so far;
\* sum: those of the calls made for the message so far;
\* stalls: the zero-progress would-blocks the transport answered during the
\* call; cuts: the times the transport delivered less than it had; comb: the
\* transport may hand bytes over together with a would-block.
WaitInit(comb) ==
    [pc |-> "idle", buf |-> <<>>, n |-> 0, err |-> Nil, sum |-> 0,
     recv |-> <<>>, stalls |-> 0, cuts |-> 0, comb |-> comb]

\* The record of a call that begins: for the next message with a fresh
\* buffer, or again with the same buffer after a call that returned a signal.
Called ==
    [rcl EXCEPT !.pc = "reading", !.n = 0, !.err = Nil, !.stalls = 0,
                !.sum = IF rcl.err = Nil THEN 0 ELSE @,
                !.buf = IF rcl.err = Nil THEN Zeros(Len(LongBytes))
                        ELSE rcl.buf]

\* A call c goes on from the loop of readStream that fr.offset selects; r is
\* what happens until the transport has nothing more to give for now: the
\* call returns, or it is left inside readOnce, which reissues the Read.
WaitGot(c, avail, r) ==
    /\ rfr' = r.fr
    /\ rpos' = rpos + (avail - Len(r.io.data))
    /\ rcl' = [c EXCEPT
                  !.pc = IF r.err = Hang THEN "reading" ELSE "returned",
                  !.buf = r.p,
                  !.n = @ + r.n,
                  !.sum = @ + r.n,
                  !.err = IF r.err = Hang THEN Nil ELSE r.err,
                  !.recv = IF r.err = Nil
                              THEN Append(@, SubSeq(r.p, 1, c.sum + r.n)) ELSE @,
                  !.stalls = IF avail = 0 /\ r.io.log # <<>> THEN @ + 1 ELSE @,
                  !.cuts = IF 0 < avail /\ avail < Len(pipe) - rpos
                              THEN @ + 1 ELSE @]
    /\ UNCHANGED <<hx, wfr, pipe, closed, wcl, fwd, out, fcl, rbuf, dcl>>

\* Read is entered; r is what readStream does before it turns to the
\* transport.  A call that needs no byte returns at once, any other is under
\* way.
WaitEnter(r) ==
    IF r.io.log = <<>> THEN WaitGot(Called, 0, r)
    ELSE /\ rcl' = Called
         /\ UNCHANGED <<hx, rfr, wfr, pipe, rpos, closed, wcl, fwd, out, fcl,
                        rbuf, dcl>>

\* Reader.Read(buf) is called.
WaitCall ==
    /\ rcl.pc # "reading"
    /\ Len(rcl.recv) < Len(wcl.sent)
    /\ rcl.err \in Signals \cup {Nil}
    /\ WaitEnter(read(rfr, NewSource(<<>>, ErrWouldBlock, FALSE, 0), Called.buf))

\* The transport during a stretch of a call: it delivers the next avail
\* bytes of the wire and then answers would-block with zero progress, or
\* (comb) it hands the last of the bytes over together with the would-block.
WaitStep(avail, comb) ==
    /\ rcl.pc = "reading"
    /\ WaitGot(rcl, avail,
               read(rfr, NewSource(SubSeq(pipe, rpos + 1, rpos + avail),
                                   ErrWouldBlock, comb, 0),
                    rcl.buf))

\* The transport answers would-block with zero progress.
WaitStall ==
    /\ rcl.stalls < MaxWait
    /\ WaitStep(0, FALSE)

\* The transport delivers bytes: all it has, or up to MaxChunk of them.
WaitDeliver ==
    \E avail \in 1..(Len(pipe) - rpos) :
       /\ \/ avail = Len(pipe) - rpos
          \/ avail <= MaxChunk /\ rcl.cuts < MaxIntr
       /\ \E comb \in {FALSE, rcl.comb} : WaitStep(avail, comb)

\* A Reader built with a retry policy on a wire of whole frames that may be
\* followed by the first bytes of one more.
InitWait ==
    /\ hx = HdrIdle
    /\ \E delay \in RetryDelays :
          LET opts == [defaultOptions EXCEPT !.RetryDelay = delay]
          IN  /\ rfr = NewReader(opts)
              /\ wfr = NewWriter(opts)
              /\ fwd = NewForwarder([opts EXCEPT !.ReadLimit = FwdReadLimit])
    /\ \E k \in 1..MaxMsgs, drop \in 0..MaxDrop :
          \E msgs \in [1..k -> UNION {Payloads(i) : i \in 1..MaxMsgs}] :
             /\ \A i \in 1..k : msgs[i] \in Payloads(i)
             /\ wcl = [WcInit EXCEPT !.sent = msgs]
             /\ pipe = SubSeq(CanonWire(BigEndian, msgs), 1,
                              Len(CanonWire(BigEndian, msgs)) - drop)
    /\ rpos = 0
    /\ closed = TRUE
    /\ \E comb \in BOOLEAN : rcl = WaitInit(comb)
    /\ out = <<>>
    /\ fcl = FcInit
    /\ rbuf = <<>>
    /\ dcl = DcInit

NextWait == WaitCall \/ WaitStall \/ WaitDeliver

SpecWait == InitWait /\ [][NextWait]_vars

\* A step of a call under way in which the transport delivers bytes.
Delivery ==
    /\ rcl.pc = "reading"
    /\ rpos' \in (rpos + 1)..Len(pipe)

\* The call runs on after runtime.Gosched() / time.Sleep, and the transport
\* delivers the bytes it has: while a call is under way and bytes are left,
\* a delivery happens.
FairWait == SpecWait /\ WF_rpos(Delivery)

\* ============================================================== properties

IsPrefix(a, b) == Len(a) <= Len(b) /\ a = SubSeq(b, 1, Len(a))

\* The bytes the Writer's transport accepted for the current message.
Emitted == SubSeq(pipe, wcl.mark + 1, Len(pipe))

\* C1: stream round trip.  With the same byte order on both sides, the
\* payloads Read has delivered are the payloads written, in order; a Read
\* that is not a resumption returns (len(p), nil) with p in the buffer and has
\* taken exactly one frame from the wire; and a Read fails only for a reason
\* outside the claim's case: a buffer shorter than the payload, a transport
\* cut short, or a wire that ends (inside a frame the Writer did not finish,
\* or after the last frame).
C1_StreamRoundTrip ==
    LET k == Len(rcl.recv)
    IN  /\ rfr.rbo = wfr.wbo
        /\ k <= Len(wcl.sent)
        /\ \A i \in 1..k : rcl.recv[i] = wcl.sent[i]
        /\ (rcl.err = Nil /\ k > 0) =>
              /\ rpos = Len(CanonWire(wfr.wbo, SubSeq(wcl.sent, 1, k)))
              /\ rfr.offset = 0
              /\ rcl.off0 = 0 =>
                    /\ rcl.n = Len(wcl.sent[k])
                    /\ SubSeq(rcl.buf, 1, rcl.n) = wcl.sent[k]
        /\ rcl.err \in {Nil, EOF, ErrUnexpectedEOF, ErrShortBuffer, ErrWouldBlock}
        /\ rcl.err = ErrShortBuffer =>
              k < Len(wcl.sent) /\ Len(rcl.buf) < Len(wcl.sent[k + 1])
        /\ rcl.err = ErrWouldBlock => rcl.intr > 0 /\ rpos < Len(pipe)
        /\ rcl.err = ErrUnexpectedEOF =>
              wcl.err # Nil /\ k = Len(wcl.sent) - 1 /\ rpos = Len(pipe)
        /\ rcl.err = EOF =>
              rpos = Len(pipe) /\ pipe = CanonWire(wfr.wbo, rcl.recv)

\* Two messages, one with an extended header and the empty one, have gone
\* through in big-endian order, neither side cut short.
C1_Witness ==
    /\ rcl.err = Nil
    /\ rcl.recv = <<LongPayload(1), <<>>>>
    /\ wcl.sent = rcl.recv
    /\ rfr.rbo = BigEndian
    /\ rcl.intr = 0 /\ wcl.intr = 0

\* C2: forwarder boundary preservation.  With messages no longer than the
\* Forwarder's buffer and transports cut short by would-block or more-to-come
\* on either side, ForwardOnce returns only nil, the signal of the transport
\* that was cut short, or io.EOF; the sink holds at every moment the canonical
\* frames of the messages forwarded so far, in order, followed by the first
\* bytes of the frame being written; and when ForwardOnce returns io.EOF the
\* sink holds exactly the canonical frames of all the payloads, one frame per
\* message.
C2_ForwarderBoundary ==
    LET bo == fwd.ww.wbo
        wire == CanonWire(bo, wcl.sent)
        forwarded == CanonWire(bo, SubSeq(wcl.sent, 1, fcl.done))
    IN  /\ fcl.done <= Len(wcl.sent)
        /\ IsPrefix(out, wire)
        /\ Len(out) = Len(forwarded) + fwd.ww.offset
        /\ fcl.err \in {Nil, EOF} \cup Signals
        /\ fcl.err \in Signals => fcl.rcut + fcl.wcut > 0
        /\ fcl.err = EOF =>
              /\ out = wire
              /\ fcl.done = Len(wcl.sent)
              /\ fwd.state = 0 /\ fwd.rr.offset = 0 /\ fwd.ww.offset = 0

\* The source held whole canonical frames and the Forwarder has read them to
\* the end, yet it reports a truncated stream and the sink lacks a message.
C2_Lost ==
    /\ fcl.err = ErrUnexpectedEOF
    /\ pipe = CanonWire(fwd.rr.rbo, wcl.sent)
    /\ rpos = Len(pipe)
    /\ Len(out) < Len(pipe)

\* C2 holds of the behaviours in which no source read returned bytes together
\* with would-block or more-to-come: the signal then comes on a read of its
\* own, before or after the bytes.
C2_SeparateSignals == ~fcl.rcomb => C2_ForwarderBoundary

\* A message with an extended header and an empty message went through a
\* Forwarder whose source and sink were each cut short, up to io.EOF.
C2_Witness ==
    /\ fcl.err = EOF
    /\ ~fcl.rcomb
    /\ wcl.sent = <<LongPayload(1), <<>>>>
    /\ fcl.rcut > 0
    /\ fcl.wcut > 0

\* C3: read resumption.  A Read that retries, with the same buffer, a message
\* whose earlier call reported would-block returns nil as soon as the
\* transport delivers the rest of the frame; the buffer then holds the written
\* payload, this call's count is the part of the payload it read, and the
\* counts of the calls of the message sum to the payload length.  The retry
\* fails only for a reason outside the claim's case: the transport is cut
\* short again, the buffer is shorter than the payload, or the wire ends.
C3_ReadResumption ==
    LET k == Len(rcl.recv)
    IN  rcl.err0 = ErrWouldBlock =>
            /\ rcl.err \in {Nil, ErrWouldBlock, ErrShortBuffer, ErrUnexpectedEOF, EOF}
            /\ rcl.err = Nil =>
                  /\ k > 0
                  /\ rcl.sum = Len(wcl.sent[k])
                  /\ SubSeq(rcl.buf, 1, rcl.sum) = wcl.sent[k]
                  /\ rcl.n = rcl.sum
                        - Max(0, rcl.off0 - Len(CanonHeader(wfr.wbo, rcl.sum)))
            /\ rcl.err = ErrShortBuffer =>
                  k < Len(wcl.sent) /\ Len(rcl.buf) < Len(wcl.sent[k + 1])
            /\ rcl.err = ErrUnexpectedEOF => wcl.err # Nil /\ rpos = Len(pipe)
            /\ rcl.err = EOF => rcl.off0 = 0 /\ rpos = Len(pipe)

\* A message with an extended header was split inside the header, and the
\* retry completed it.
C3_Witness ==
    /\ rcl.err0 = ErrWouldBlock
    /\ rcl.err = Nil
    /\ rcl.off0 = 2
    /\ rcl.recv = <<LongPayload(1)>>

\* Transport reads of the last Read call: bytes of the message consumed once
\* read i of the call has returned, counting those of earlier calls.
RECURSIVE SumN(_, _)
SumN(log, i) == IF i = 0 THEN 0 ELSE log[i].n + SumN(log, i - 1)

Got(i) == rcl.off0 + SumN(rcl.log, i)

\* The frame the last Read call worked on, <<>> when the Writer started none.
ReadFrame ==
    LET m == Len(rcl.recv) + (IF rcl.err = Nil THEN 0 ELSE 1)
    IN  IF m \in 1..Len(wcl.sent) THEN CanonFrame(wfr.wbo, wcl.sent[m]) ELSE <<>>

\* Transport reads of the last Read call that returned an end of stream.
EOFReads == {i \in 1..Len(rcl.log) : rcl.log[i].err = EOF}

\* An end of stream that came with the bytes that complete the header or the
\* payload.
Absorbed(i) == rcl.log[i].n > 0 /\ rcl.log[i].n = rcl.log[i].want

\* C6 as stated: an end of stream with offset = 0 yields (0, io.EOF); an end of
\* stream after a byte of the message was consumed and before header and
\* payload are complete yields io.ErrUnexpectedEOF.
C6_AsStated ==
    \A i \in EOFReads :
        /\ Got(i) = 0 => rcl.n = 0 /\ rcl.err = EOF
        /\ (Got(i) > 0 /\ Got(i) < Len(ReadFrame)) => rcl.err = ErrUnexpectedEOF

\* C6, amended: an end of stream with offset = 0 yields (0, io.EOF) and leaves
\* the framer at a message boundary; an end of stream that cuts the header or
\* the payload short, after at least one byte of the message was consumed in
\* this call or an earlier one, ends the call with io.ErrUnexpectedEOF; an end
\* of stream after a consumed byte never yields io.EOF; when it comes with the
\* bytes that complete the header of a message with a payload, the call goes
\* on and returns io.ErrUnexpectedEOF or, the buffer being too short for the
\* announced length, io.ErrShortBuffer.  Read returns io.EOF and
\* io.ErrUnexpectedEOF in these cases only.
C6_EOFTaxonomy ==
    /\ \A i \in EOFReads :
          /\ Got(i) = 0 =>
                /\ rcl.n = 0 /\ rcl.err = EOF
                /\ i = Len(rcl.log) /\ rfr.offset = 0
          /\ Got(i) > 0 => rcl.err # EOF
          /\ (Got(i) > 0 /\ ~Absorbed(i)) =>
                /\ rcl.err = ErrUnexpectedEOF
                /\ i = Len(rcl.log) /\ Got(i) < Len(ReadFrame)
          /\ (Got(i) > 0 /\ Absorbed(i) /\ Got(i) < Len(ReadFrame)) =>
                rcl.err \in {ErrUnexpectedEOF, ErrShortBuffer}
    /\ rcl.err \in {EOF, ErrUnexpectedEOF} => Len(rcl.log) \in EOFReads
    /\ rcl.err = ErrShortBuffer => Len(rcl.buf) < rfr.length

\* A message with an extended header: an earlier call consumed the lead byte
\* and reported would-block, and the end of stream came inside the
\* extended-length bytes.
C6_Witness ==
    /\ rcl.err = ErrUnexpectedEOF
    /\ rcl.err0 = ErrWouldBlock
    /\ rcl.off0 = 1
    /\ Len(rcl.log) \in EOFReads
    /\ wcl.sent = <<LongPayload(1)>>

\* C7: absorbed terminal EOF.  When the transport returns (n > 0, io.EOF) and
\* the n bytes complete the lead byte, the extended-length bytes or the
\* payload, Read does not report io.EOF; if the message is thereby complete it
\* returns nil with the payload in the buffer, its count being the payload
\* bytes of this call, and the framer is at a message boundary; otherwise it
\* goes on with the next phase.
C7_AbsorbedEOF ==
    LET k == Len(rcl.recv)
    IN  \A i \in EOFReads :
            Absorbed(i) =>
                /\ rcl.err # EOF
                /\ Got(i) = Len(ReadFrame) =>
                      /\ rcl.err = Nil
                      /\ i = Len(rcl.log)
                      /\ k > 0
                      /\ rcl.recv[k] = wcl.sent[k]
                      /\ SubSeq(rcl.buf, 1, rcl.sum) = wcl.sent[k]
                      /\ rcl.sum = Len(wcl.sent[k])
                      /\ rfr.offset = 0
                /\ Got(i) < Len(ReadFrame) =>
                      /\ rfr.offset >= Got(i)
                      /\ i < Len(rcl.log) \/ rcl.err = ErrShortBuffer

\* The end of stream came with the last payload byte of the last message.
C7_Witness ==
    /\ rcl.err = Nil
    /\ rcl.recv = <<Pay(1, 1), Pay(MaxLen, 2)>>
    /\ Len(rcl.log) \in EOFReads
    /\ Absorbed(Len(rcl.log))

\* C7, second case: the end of stream came with the header of an empty message.
C7_WitnessEmpty ==
    /\ rcl.err = Nil
    /\ rcl.recv = << <<>> >>
    /\ rcl.log = <<[want |-> 1, n |-> 1, err |-> EOF]>>

\* C4: write resumption.  At every moment the bytes accepted for the message
\* in flight are the first offset bytes of its canonical frame, and when the
\* retries with the same p end with nil they are exactly the frame.
C4_WriteResumption ==
    ~wcl.rej =>
        /\ wfr.offset > 0 =>
              /\ Len(Emitted) = wfr.offset
              /\ IsPrefix(Emitted, CanonFrame(wfr.wbo, wcl.cur))
        /\ (wcl.err = Nil /\ wcl.done > 0) =>
              /\ Emitted = CanonFrame(wfr.wbo, wcl.cur)
              /\ pipe = CanonWire(wfr.wbo, wcl.sent)
              /\ wfr.offset = 0

\* A message with an extended header was interrupted twice, the second time
\* inside the payload, and the retry completed it.
C4_Witness ==
    /\ wcl.err = Nil
    /\ wcl.err0 = ErrWouldBlock
    /\ wcl.off0 > 3
    /\ wcl.intr = 2
    /\ ~wcl.rej
    /\ wcl.sent = <<LongPayload(1)>>

\* C5: message-identity guard.  A Write entered with a message in flight
\* (offset > 0) and an input of another length than the one fixed returns
\* (0, io.ErrShortWrite), makes no transport write and leaves length and
\* offset as they were; the original input afterwards completes the frame
\* canonically.
C5_MessageIdentityGuard ==
    /\ (wcl.off0 > 0 /\ Len(wcl.arg) # wcl.len0) =>
          /\ wcl.n = 0
          /\ wcl.err = ErrShortWrite
          /\ wcl.calls = 0
          /\ wfr.offset = wcl.off0
          /\ wfr.length = wcl.len0
          /\ wfr.length = Len(wcl.cur)
          /\ IsPrefix(Emitted, CanonFrame(wfr.wbo, wcl.cur))
          /\ Len(Emitted) = wfr.offset
    /\ (wcl.rej /\ wcl.err = Nil) =>
          /\ Emitted = CanonFrame(wfr.wbo, wcl.cur)
          /\ pipe = CanonWire(wfr.wbo, wcl.sent)

\* A message interrupted inside its payload met an input of another length,
\* and the original input then completed the frame.
C5_Witness ==
    /\ wcl.rej
    /\ wcl.err = Nil
    /\ wcl.err0 = ErrShortWrite
    /\ wcl.off0 > 1
    /\ Len(wcl.cur) = MaxLen


\* The size classes of the wire format, read off the digits of L.
IsSmall(L) == L[1] <= 253 /\ \A i \in 2..8 : L[i] = 0
IsMid(L) == ~IsSmall(L) /\ \A i \in 3..8 : L[i] = 0
IsBig(L) == ~IsSmall(L) /\ ~IsMid(L) /\ L[8] = 0

C8Lens ==
    << <<0, 0, 0, 0, 0, 0, 0, 0>>, <<1, 0, 0, 0, 0, 0, 0, 0>>,
       <<253, 0, 0, 0, 0, 0, 0, 0>>, <<254, 0, 0, 0, 0, 0, 0, 0>>,
       <<255, 0, 0, 0, 0, 0, 0, 0>>, <<255, 255, 0, 0, 0, 0, 0, 0>>,
       <<0, 0, 1, 0, 0, 0, 0, 0>> >>
C8Sizes == <<1, 1, 1, 3, 3, 3, 8>>
C8Leads == <<0, 1, 253, 254, 254, 254, 255>>

\* C8 - Header size classes: write_one emits a 1-byte header with lead byte L
\* for 0 <= L <= 253, a 3-byte header with lead byte 0xFE for 254 <= L <=
\* 65535, and an 8-byte header with lead byte 0xFF for 65536 <= L <= 2^56-1;
\* for L in {0, 1, 253, 254, 255, 65535, 65536} the sizes are {1,1,1,3,3,3,8}
\* and the lead bytes {L, L, L, 0xFE, 0xFE, 0xFE, 0xFF}.
C8_HeaderSizeClasses ==
    hx.stage = "written" =>
        /\ IsSmall(hx.L) =>
              hx.err = Nil /\ hx.hdrSize = 1 /\ hx.header[1] = hx.L[1]
        /\ IsMid(hx.L) =>
              hx.err = Nil /\ hx.hdrSize = 3 /\ hx.header[1] = 254
        /\ IsBig(hx.L) =>
              hx.err = Nil /\ hx.hdrSize = 8 /\ hx.header[1] = 255
        /\ \A k \in 1..7 :
              hx.L = C8Lens[k] =>
                  hx.hdrSize = C8Sizes[k] /\ hx.header[1] = C8Leads[k]

C8_Witness ==
    /\ hx.stage = "written"
    /\ hx.L = <<0, 0, 1, 0, 0, 0, 0, 0>>
    /\ hx.hdrSize = 8
    /\ hx.header[1] = 255

\* C9 - Extended-length layout: for 254 <= L <= 65535 the two bytes after
\* 0xFE are L as a 16-bit value in the write byte order; for L >= 65536 the
\* seven bytes after 0xFF are the low 56 bits of L, most significant first in
\* big-endian and least significant first in little-endian; L = 70000 gives
\* 00 00 00 00 01 11 70 and 70 11 01 00 00 00 00.
C9_ExtendedLengthLayout ==
    (hx.stage = "written" /\ hx.err = Nil) =>
        /\ IsMid(hx.L) =>
              Slice(hx.header, 1, 3) =
                  IF hx.wbo = BigEndian THEN <<hx.L[2], hx.L[1]>>
                  ELSE <<hx.L[1], hx.L[2]>>
        /\ IsBig(hx.L) =>
              \A i \in 1..7 :
                  hx.header[1 + i] =
                      IF hx.wbo = BigEndian THEN hx.L[8 - i] ELSE hx.L[i]
        /\ hx.L = <<112, 17, 1, 0, 0, 0, 0, 0>> =>
              Slice(hx.header, 1, 8) =
                  IF hx.wbo = BigEndian THEN <<0, 0, 0, 0, 1, 17, 112>>
                  ELSE <<112, 17, 1, 0, 0, 0, 0>>

C9_Witness ==
    /\ hx.stage = "written"
    /\ hx.L = <<112, 17, 1, 0, 0, 0, 0, 0>>
    /\ hx.wbo = LittleEndian
    /\ hx.header = <<255, 112, 17, 1, 0, 0, 0, 0>>

\* C10 - Header decoding: read_one takes 2 extended-length bytes after lead
\* byte 0xFE, 7 after 0xFF and none otherwise; the payload length is the lead
\* byte itself, the 16-bit value of the two bytes in the read byte order, or
\* the 56-bit value of the seven bytes in that order, the lead byte
\* contributing nothing; big-endian FE 01 00 is a length of 256.
C10_HeaderDecoding ==
    hx.stage = "read" =>
        LET w == hx.header
            be == hx.rbo = BigEndian
        IN  /\ hx.exLen = IF w[1] = 254 THEN 2 ELSE IF w[1] = 255 THEN 7 ELSE 0
            /\ w[1] <= 253 => hx.length = <<w[1], 0, 0, 0, 0, 0, 0, 0>>
            /\ w[1] = 254 =>
                  hx.length = IF be THEN <<w[3], w[2], 0, 0, 0, 0, 0, 0>>
                              ELSE <<w[2], w[3], 0, 0, 0, 0, 0, 0>>
            /\ w[1] = 255 =>
                  hx.length = [i \in 1..8 |->
                                  IF i = 8 THEN 0
                                  ELSE IF be THEN w[9 - i] ELSE w[i + 1]]
            /\ (be /\ Slice(w, 0, 3) = <<254, 1, 0>>) =>
                  hx.length = <<0, 1, 0, 0, 0, 0, 0, 0>>

C10_Witness ==
    /\ hx.stage = "read"
    /\ hx.from = "raw"
    /\ hx.rbo = BigEndian
    /\ Slice(hx.header, 0, 3) = <<254, 1, 0>>
    /\ hx.exLen = 2
    /\ hx.length = <<0, 1, 0, 0, 0, 0, 0, 0>>

\* The message the last Read call worked on: its index among the messages
\* written, and the position of its frame on the wire.
ReadIndex == Len(rcl.recv) + (IF rcl.err = Nil THEN 0 ELSE 1)

ReadStart == Len(CanonWire(wfr.wbo, SubSeq(wcl.sent, 1, ReadIndex - 1)))

\* C11: short buffer.  A Read whose buffer is shorter than the parsed length
\* returns (0, io.ErrShortBuffer): the transport was read up to the end of the
\* header and no further, the buffer is untouched, and the framer keeps the
\* parsed header (offset at the end of the header, or where an earlier call
\* of the message left it; length the payload length).
\* The following Read with a buffer of at least length bytes delivers that
\* message, whole, as soon as the transport delivers its payload; it fails
\* only when the transport is cut short or the wire ends inside the payload.
C11_ShortBuffer ==
    LET m == ReadIndex
        hdr == IF m \in 1..Len(wcl.sent)
                  THEN Len(CanonHeader(wfr.wbo, Len(wcl.sent[m]))) ELSE 0
    IN  /\ rcl.err = ErrShortBuffer =>
              /\ m \in 1..Len(wcl.sent)
              /\ rcl.n = 0
              /\ rfr.length = Len(wcl.sent[m])
              /\ Len(rcl.buf) < rfr.length
              /\ rfr.offset = Max(rcl.off0, hdr)
              /\ rpos = ReadStart + rfr.offset
              /\ rcl.off0 + SumN(rcl.log, Len(rcl.log)) = rfr.offset
              /\ rcl.buf = Zeros(Len(rcl.buf))
        /\ (rcl.err0 = ErrShortBuffer /\ rcl.err # ErrShortBuffer /\ rcl.off0 = hdr) =>
              /\ m \in 1..Len(wcl.sent)
              /\ Len(rcl.buf) >= Len(wcl.sent[m])
              /\ rcl.err \in {Nil, ErrWouldBlock, ErrUnexpectedEOF}
              /\ rcl.err = Nil =>
                    /\ rcl.n = Len(wcl.sent[m])
                    /\ SubSeq(rcl.buf, 1, rcl.n) = wcl.sent[m]
                    /\ rcl.recv[m] = wcl.sent[m]
                    /\ rpos = ReadStart + hdr + rcl.n
              /\ rcl.err = ErrWouldBlock => rpos < Len(pipe)
              /\ rcl.err = ErrUnexpectedEOF => wcl.err # Nil /\ rpos = Len(pipe)
        /\ (rcl.err0 = ErrShortBuffer /\ rcl.err = ErrShortBuffer) =>
              SumN(rcl.log, Len(rcl.log)) = 0

\* A message with an extended header met a 2-byte buffer, and the next Read,
\* with a buffer of 254 bytes, delivered it after another message.
C11_Witness ==
    /\ rcl.err0 = ErrShortBuffer
    /\ rcl.err = Nil
    /\ rcl.recv = <<Pay(1, 1), LongPayload(2)>>
    /\ rcl.n = framePayloadMaxLen8Bits + 1

\* The header length of the frame the last Read call worked on.
ReadHdr ==
    IF ReadIndex \in 1..Len(wcl.sent)
        THEN Len(CanonHeader(wfr.wbo, Len(wcl.sent[ReadIndex]))) ELSE 0

\* C12: read limit.  With a positive read limit, Read returns ErrTooLong only
\* with n = 0, the header completely parsed and the parsed length over the
\* limit; the transport was read exactly to the end of the header and the
\* buffer is untouched.  A length within the limit is never refused, a length
\* over it never reaches the short-buffer check or the payload (the call that
\* completes the header returns ErrTooLong, unless the transport gave the last
\* header bytes together with would-block), and an end of
\* stream inside the header yields io.ErrUnexpectedEOF whatever length the
\* header was to declare.
C12_ReadLimit ==
    LET m == ReadIndex
    IN  /\ rfr.readLimit > 0
        /\ rcl.err = ErrTooLong =>
              /\ m \in 1..Len(wcl.sent)
              /\ rcl.n = 0
              /\ rfr.offset = ReadHdr
              /\ rfr.length = Len(wcl.sent[m])
              /\ rfr.length > rfr.readLimit
              /\ rpos = ReadStart + ReadHdr
              /\ rcl.buf = Zeros(Len(rcl.buf))
        /\ (m \in 1..Len(wcl.sent) /\ Len(wcl.sent[m]) > rfr.readLimit) =>
              /\ rcl.err \in {ErrTooLong, ErrWouldBlock, ErrUnexpectedEOF}
              /\ rfr.offset <= ReadHdr
              /\ rpos <= ReadStart + ReadHdr
              /\ (rfr.offset = ReadHdr /\ rcl.err # ErrTooLong) =>
                    /\ rcl.err = ErrWouldBlock
                    /\ rcl.log[Len(rcl.log)].n > 0
                    /\ rcl.log[Len(rcl.log)].err = ErrWouldBlock
        /\ \A i \in EOFReads :
              (Got(i) > 0 /\ Got(i) < ReadHdr) =>
                  rcl.n = 0 /\ rcl.err = ErrUnexpectedEOF

\* A message within the limit was delivered and the next one, with an
\* extended header, was refused once its header was parsed.
C12_Witness ==
    /\ rcl.err = ErrTooLong
    /\ rfr.readLimit = MaxLen
    /\ rcl.recv = <<Pay(MaxLen, 1)>>
    /\ wcl.sent = <<Pay(MaxLen, 1), LongPayload(2)>>

\* The wire ended inside the extended header of a message over the limit.
C12_WitnessCut ==
    /\ rcl.err = ErrUnexpectedEOF
    /\ wcl.sent = <<LongPayload(1)>>
    /\ rpos = 2

\* The payloads of msgs, one after the other.
RECURSIVE Flat(_)
Flat(msgs) == IF msgs = <<>> THEN <<>> ELSE Head(msgs) \o Flat(Tail(msgs))

\* C13: WriteTo, sink-side resumption.  With a source that is never cut short
\* and a sink that accepts part of a payload and answers would-block or
\* more-to-come, WriteTo returns the bytes the sink accepted with that signal
\* and the next call first delivers the rest of that payload: the sink holds
\* at every moment the first bytes of the payloads in order, each byte once,
\* and all of them when WriteTo returns nil.
C13_DrainSinkResumption ==
    dcl.rcut = 0 =>
        /\ dcl.err \in {Nil} \cup Signals
        /\ dcl.sum = Len(out)
        /\ IsPrefix(out, Flat(wcl.sent))
        /\ (dcl.calls > 0 /\ dcl.err = Nil) => out = Flat(wcl.sent)

\* The sink was cut short once inside a payload; WriteTo then returned nil at
\* the end of the source, and the sink lacks bytes of that payload.
C13_Lost ==
    /\ dcl.calls > 0
    /\ dcl.rcut = 0
    /\ dcl.wcut = 1
    /\ dcl.err = Nil
    /\ rpos = Len(pipe)
    /\ pipe = CanonWire(wfr.wbo, wcl.sent)
    /\ Len(out) < Len(Flat(wcl.sent))

\* C14: WriteTo, source-side resumption.  With a sink that is never cut short
\* and a source that answers would-block in the middle of a payload, WriteTo
\* returns would-block with nothing of that message written; the following
\* calls resume the message and write its payload once, whole and in order:
\* the sink holds whole payloads only, in order, and all of them when WriteTo
\* returns nil at the end of the source.
C14_DrainSourceResumption ==
    dcl.wcut = 0 =>
        /\ dcl.err \in {Nil} \cup Signals
        /\ \E k \in 0..Len(wcl.sent) : out = Flat(SubSeq(wcl.sent, 1, k))
        /\ (dcl.calls > 0 /\ dcl.err = Nil) =>
              out = Flat(wcl.sent) /\ dcl.sum = Len(out)

\* The source answered would-block once inside a payload and then delivered
\* the rest of the wire, whole frames to its end; WriteTo reports a truncated
\* stream and the sink lacks the message.
C14_Broken ==
    /\ dcl.wcut = 0
    /\ dcl.rcut = 1
    /\ dcl.err = ErrUnexpectedEOF
    /\ pipe = CanonWire(wfr.wbo, wcl.sent)
    /\ rpos = Len(pipe)
    /\ Len(out) < Len(Flat(wcl.sent))

\* C15: fill_from sink-side resumption.  While ReadFrom is called again
\* after each would-block of its sink, the wire carries the frames of the
\* chunks read from the source so far, in order and nothing else, the last
\* frame possibly unfinished; the counts returned sum to the payload bytes
\* on the wire; and once ReadFrom returns nil, every chunk of the source is
\* on the wire as one whole frame.
C15_FillSinkResumption ==
    /\ dcl.err \in {Nil} \cup Signals
    /\ IsPrefix(pipe, CanonWire(wfr.wbo, dcl.chunks))
    /\ (dcl.calls > 0 /\ dcl.err = Nil) =>
          /\ dcl.src = <<>>
          /\ pipe = CanonWire(wfr.wbo, dcl.chunks)
          /\ dcl.sum = Len(Flat(dcl.chunks))

\* ReadFrom has returned nil at the end of its source after its sink
\* blocked inside a frame, and the frame is still unfinished on the wire.
C15_Stuck ==
    /\ dcl.calls > 0 /\ dcl.err = Nil /\ dcl.src = <<>>
    /\ dcl.wcut = 1
    /\ Len(dcl.chunks) = 1
    /\ wfr.offset > 0
    /\ IsPrefix(pipe, CanonWire(wfr.wbo, dcl.chunks))
    /\ Len(pipe) < Len(CanonWire(wfr.wbo, dcl.chunks))

\* C16: packet final-EOF idiom.  Once the source has returned its last
\* packet together with io.EOF, either the Forwarder is still in its write
\* phase holding that packet (the call returned what the sink answered), or
\* the call that completed the write returned (n, nil), n the length of the
\* packet, with the packet the last thing the sink took in one Write, and
\* every later call returns (0, io.EOF) without touching the sink.
C16_PacketFinalEOF ==
    fcl.fin # <<>> =>
        /\ rpos = Len(pipe)
        /\ \/ /\ fwd.state = 2
              /\ fwd.eofAfterThis /\ ~fwd.eofPending
              /\ SubSeq(fwd.buf, 1, fwd.need) = fcl.fin
              /\ fcl.err \in Signals \cup {ErrShortWrite}
              /\ fcl.wcut > 0
           \/ /\ fwd.state = 0
              /\ fwd.eofPending /\ ~fwd.eofAfterThis
              /\ out # <<>> /\ out[Len(out)] = fcl.fin
              /\ fcl.done = Len(pipe)
              /\ IF fcl.post = 0
                    THEN fcl.err = Nil /\ fcl.n = Len(fcl.fin)
                    ELSE fcl.err = EOF /\ fcl.n = 0 /\ fcl.sinkCalls = 0

\* The last packet came with io.EOF, the sink blocked during the write
\* phase, the packet was forwarded and the following call returned io.EOF.
C16_Witness ==
    /\ fcl.fin # <<>> /\ Len(pipe) = MaxMsgs
    /\ fcl.wcut > 0 /\ fcl.post > 0
    /\ fcl.err = EOF /\ fcl.n = 0
    /\ out[Len(out)] = fcl.fin

\* The write phase of the last packet is pending after a would-block.
C16_WitnessPending ==
    /\ fcl.fin # <<>> /\ fwd.state = 2 /\ fcl.err = ErrWouldBlock

\* The header size of the message Read is at, and of the message Write was
\* handed.
WriteHdr == Len(CanonHeader(wfr.wbo, Len(wcl.arg)))

\* Payload bytes the last call of Read / Write moved, when the call ended in
\* the middle of a message.
ReadMoved == Max(rfr.offset - ReadHdr, 0) - Max(rcl.off0 - ReadHdr, 0)
WriteMoved == Max(wfr.offset - WriteHdr, 0) - Max(wcl.off0 - WriteHdr, 0)

\* A transport call that broke the contract: a zero count with a nil error
\* on a non-empty buffer.
ZeroNil(e) == e.want > 0 /\ e.n = 0 /\ e.err = Nil

\* C17 as stated: a transport call answered with (0, nil) on a non-empty
\* buffer is the last one of the call, and Read returns (0, io.ErrNoProgress),
\* Write (0, io.ErrShortWrite), in the header phase as in the payload phase
\* and under every retry policy.
C17_NoProgressZero ==
    /\ \A i \in DOMAIN rcl.log :
          ZeroNil(rcl.log[i]) =>
             i = Len(rcl.log) /\ rcl.err = ErrNoProgress /\ rcl.n = 0
    /\ \A i \in DOMAIN wcl.log :
          ZeroNil(wcl.log[i]) =>
             i = Len(wcl.log) /\ wcl.err = ErrShortWrite /\ wcl.n = 0

\* C17, amended: a transport call answered with (0, nil) on a non-empty
\* buffer is the last one of the call, under every retry policy, and Read
\* returns io.ErrNoProgress, Write io.ErrShortWrite, with the count of the
\* payload bytes the call had moved before: 0 in the header phase, and 0 in
\* the payload phase only when no earlier transport call of the same call
\* moved payload bytes.
C17_NoProgressGuard ==
    /\ \A i \in DOMAIN rcl.log :
          ZeroNil(rcl.log[i]) =>
             /\ i = Len(rcl.log)
             /\ rcl.err = ErrNoProgress
             /\ rcl.n = ReadMoved
             /\ rfr.offset <= ReadHdr => rcl.n = 0
    /\ \A i \in DOMAIN wcl.log :
          ZeroNil(wcl.log[i]) =>
             /\ i = Len(wcl.log)
             /\ wcl.err = ErrShortWrite
             /\ wcl.n = WriteMoved
             /\ wfr.offset <= WriteHdr => wcl.n = 0

\* Under the yield policy, a Read whose transport delivered payload bytes
\* and then (0, nil) has returned io.ErrNoProgress with those bytes counted.
C17_Witness ==
    /\ rfr.retryDelay = 0
    /\ rcl.log # <<>> /\ ZeroNil(rcl.log[Len(rcl.log)])
    /\ rcl.err = ErrNoProgress
    /\ rcl.n > 0

\* The same on the write side, and the guard in the header phase.
C17_WitnessWrite ==
    /\ wfr.retryDelay > 0
    /\ wcl.log # <<>> /\ ZeroNil(wcl.log[Len(wcl.log)])
    /\ wcl.err = ErrShortWrite /\ wcl.n > 0
C17_WitnessHeader ==
    /\ rcl.log # <<>> /\ ZeroNil(rcl.log[Len(rcl.log)])
    /\ rcl.err = ErrNoProgress /\ rfr.offset < ReadHdr

\* Bytes the transport calls of a log moved.
RECURSIVE Moved(_)
Moved(log) == IF log = <<>> THEN 0 ELSE Head(log).n + Moved(Tail(log))

\* A transport call answered with progress together with a would-block.
ProgressSignal(e) == e.n > 0 /\ e.err = ErrWouldBlock

\* C18: progress-first rule.  Under every retry policy a transport call
\* answered with n > 0 and would-block is the last one of the call of Read /
\* Write, which returns would-block; the offset has advanced by exactly the
\* bytes the transport calls moved; the bytes read so far lie in the buffer
\* in wire order, and the wire holds the bytes of the frame once each.
C18_ProgressFirst ==
    /\ \A i \in DOMAIN rcl.log :
          ProgressSignal(rcl.log[i]) =>
             i = Len(rcl.log) /\ rcl.err = ErrWouldBlock
    /\ \A i \in DOMAIN wcl.log :
          ProgressSignal(wcl.log[i]) =>
             i = Len(wcl.log) /\ wcl.err = ErrWouldBlock
    /\ rcl.err \notin {Nil, EOF} =>
          /\ rfr.offset = rcl.off0 + Moved(rcl.log)
          /\ rpos = ReadStart + rfr.offset
          /\ rfr.offset > ReadHdr =>
                SubSeq(rcl.buf, 1, rfr.offset - ReadHdr)
                  = SubSeq(wcl.sent[ReadIndex], 1, rfr.offset - ReadHdr)
    /\ rcl.recv = SubSeq(wcl.sent, 1, Len(rcl.recv))
    /\ wcl.err # Nil => wfr.offset = wcl.off0 + Moved(wcl.log)
    /\ IsPrefix(pipe, CanonWire(wfr.wbo, wcl.sent))
    /\ Len(pipe) = Len(CanonWire(wfr.wbo, SubSeq(wcl.sent, 1, wcl.done))) + wfr.offset

\* Under the yield or sleep policy a Read was cut by payload bytes that came
\* with a would-block, and the next Read completed the message.
C18_Witness ==
    /\ rfr.retryDelay >= 0
    /\ rcl.err0 = ErrWouldBlock /\ rcl.off0 > ReadHdr
    /\ rcl.err = Nil /\ rcl.n > 0
    /\ Len(rcl.recv) = 1 /\ Len(rcl.recv[1]) > rcl.n

C18_WitnessWrite ==
    /\ wfr.retryDelay >= 0
    /\ wcl.log # <<>> /\ ProgressSignal(wcl.log[Len(wcl.log)])
    /\ wcl.err = ErrWouldBlock /\ wcl.n > 0

\* A transport call answered with a would-block and no progress.
ZeroSignal(e) == e.n = 0 /\ e.err = ErrWouldBlock

\* C19: retry policy.  Under the non-block policy a zero-progress would-block
\* of the transport ends the call of Read / Write, which returns would-block:
\* the transport was called once for it.  Under the yield and sleep policies
\* the same transport call is issued again, so that the last transport call
\* of a call that returns is never a zero-progress would-block.
C19_RetryPolicy ==
    /\ \A i \in DOMAIN rcl.log :
          ZeroSignal(rcl.log[i]) =>
             IF rfr.retryDelay < 0
                 THEN i = Len(rcl.log) /\ rcl.err = ErrWouldBlock
                 ELSE i < Len(rcl.log) /\ rcl.log[i + 1].want = rcl.log[i].want
    /\ \A i \in DOMAIN wcl.log :
          ZeroSignal(wcl.log[i]) =>
             IF wfr.retryDelay < 0
                 THEN i = Len(wcl.log) /\ wcl.err = ErrWouldBlock
                 ELSE i < Len(wcl.log) /\ wcl.log[i + 1].want = wcl.log[i].want

\* Under the yield policy a Read met a zero-progress would-block, the
\* transport call was issued again and the message was delivered.
C19_Witness ==
    /\ rfr.retryDelay = 0
    /\ \E i \in DOMAIN rcl.log : ZeroSignal(rcl.log[i])
    /\ rcl.err = Nil /\ Len(rcl.recv) = 1 /\ rcl.n = Len(rcl.recv[1]) /\ rcl.n > 0

C19_WitnessNonblock ==
    /\ wfr.retryDelay < 0
    /\ Len(wcl.log) = 1 /\ ZeroSignal(wcl.log[1])
    /\ wcl.err = ErrWouldBlock

\* The header size of the message in flight, and the payload bytes of it the
\* transport has accepted.
CurHdr == Len(CanonHeader(wfr.wbo, Len(wcl.cur)))
PayloadEmitted == Max(Len(Emitted) - CurHdr, 0)

\* C20: write progress count.  A call of Write returns the number of payload
\* bytes the transport accepted during that call, header bytes not counted:
\* 0 when the call ends before any payload byte is accepted; the counts
\* returned since the message began sum to the payload bytes on the wire,
\* and to len(p) once a call returns nil; a call that emits the message
\* alone returns len(p).
C20_WriteProgressCount ==
    /\ wcl.n = PayloadEmitted - Max(wcl.off0 - CurHdr, 0)
    /\ Len(Emitted) <= CurHdr => wcl.n = 0
    /\ wcl.sum = PayloadEmitted
    /\ (wcl.err = Nil /\ wcl.done > 0) =>
          /\ wcl.sum = Len(wcl.cur)
          /\ wcl.off0 = 0 => wcl.n = Len(wcl.cur)

\* A message with an extended header: the first call ended with a signal
\* inside the header and returned 0, the second inside the payload, and the
\* third completed the message; the three counts sum to len(p).
C20_Witness ==
    /\ wcl.cur = LongPayload(1)
    /\ wcl.err = Nil /\ wcl.done = 1
    /\ wcl.intr = 2
    /\ wcl.off0 > CurHdr
    /\ wcl.n > 0 /\ wcl.n < wcl.sum
    /\ wcl.sum = Len(wcl.cur)

\* A call that ended with a signal in the header phase after header bytes
\* were accepted.
C20_WitnessHeader ==
    /\ wcl.err \in Signals
    /\ Len(Emitted) > 0 /\ Len(Emitted) < CurHdr
    /\ wcl.n = 0

\* The count of the one transport read of the last call is over the read
\* limit.
OverLimit == rfr.readLimit > 0 /\ rcl.log[1].n > rfr.readLimit

\* What C21 has in common as stated and as amended: a call of Read on
\* packets makes one transport read, into the whole buffer, returns its count
\* with the bytes of the packet in the buffer, and leaves no message state.
PacketReadOnce ==
    /\ Len(rcl.log) = 1
    /\ rcl.log[1].want = Len(rcl.buf)
    /\ rcl.n = rcl.log[1].n
    /\ SubSeq(rcl.buf, 1, rcl.n) = SubSeq(rcl.pkt, 1, rcl.n)
    /\ rfr.offset = 0 /\ rfr.length = 0 /\ rfr.header = Zeros(8)

\* C21 as stated: the signal returned is the signal of the transport read,
\* unless the count is over a positive read limit, which gives ErrTooLong
\* with that count.
C21_AsStated ==
    rcl.calls > 0 =>
        /\ PacketReadOnce
        /\ rcl.err = IF OverLimit THEN ErrTooLong ELSE rcl.log[1].err

\* C21, amended: as stated, and a transport read answered with (0, nil) on a
\* non-empty buffer gives (0, io.ErrNoProgress).
C21_PacketRead ==
    rcl.calls > 0 =>
        /\ PacketReadOnce
        /\ rcl.err = IF OverLimit THEN ErrTooLong
                     ELSE IF ZeroNil(rcl.log[1]) THEN ErrNoProgress
                     ELSE rcl.log[1].err

\* A packet longer than the read limit was read into a buffer that holds it:
\* ErrTooLong with the over-limit count.
C21_Witness ==
    /\ rcl.calls > 0
    /\ rfr.readLimit = 1
    /\ rcl.pkt = LongPayload(2)
    /\ rcl.n = Len(rcl.pkt)
    /\ rcl.err = ErrTooLong

\* The source answered (0, nil) to a non-empty buffer.
C21_WitnessNoProgress ==
    /\ rcl.calls > 0 /\ rcl.buf # <<>>
    /\ rcl.log = <<[want |-> Len(rcl.buf), n |-> 0, err |-> Nil]>>
    /\ rcl.err = ErrNoProgress

\* WriteTo drains a stream.
StreamDrain == ~preserveBoundary(rfr.rpr)

\* The capacity of the scratch buffer of WriteTo.
ScratchCap == IF rfr.readLimit > 0 THEN rfr.readLimit ELSE 64 * 1024

\* The payload length the k-th header of the wire declares; the header after
\* the frames is the one of BigLength bytes.
Declared(k) == IF k <= Len(wcl.sent) THEN Len(wcl.sent[k]) ELSE BigLength

\* Where the k-th header of the wire ends.
HeaderEnd(k) ==
    Len(CanonWire(rfr.rbo, SubSeq(wcl.sent, 1, k - 1)))
        + Len(CanonHeader(rfr.rbo, Declared(k)))

\* The headers the wire holds whole.
Headers ==
    {k \in 1..(Len(wcl.sent) + (IF dcl.big THEN 1 ELSE 0)) : HeaderEnd(k) <= Len(pipe)}

\* The headers of the wire that declare more than the scratch buffer holds.
OverCap == {k \in Headers : Declared(k) > ScratchCap}

C22_WitnessLimit ==
    /\ dcl.err = ErrTooLong
    /\ rfr.readLimit = MaxLen
    /\ wcl.sent = <<Pay(MaxLen, 1), LongPayload(2)>>
    /\ out = Pay(MaxLen, 1)
    /\ dcl.n = MaxLen

\* The messages WriteTo can deliver from the wire: the frames the wire holds
\* whole, up to the first header over the capacity.
Deliverable ==
    LET whole == {k \in 0..Len(wcl.sent) :
                     /\ Len(CanonWire(rfr.rbo, SubSeq(wcl.sent, 1, k))) <= Len(pipe)
                     /\ \A j \in 1..k : j \notin OverCap}
    IN  SubSeq(wcl.sent, 1, CHOOSE k \in whole : \A j \in whole : j <= k)

\* The Write calls that hand each non-empty payload of msgs whole to a sink
\* that takes it whole.
RECURSIVE WholeWrites(_)
WholeWrites(msgs) ==
    IF msgs = <<>> THEN <<>>
    ELSE (IF Head(msgs) = <<>> THEN <<>>
          ELSE <<[want |-> Len(Head(msgs)), n |-> Len(Head(msgs)), err |-> Nil]>>)
         \o WholeWrites(Tail(msgs))

\* C23: WriteTo and zero-length messages.  With transports that were never
\* cut short, the sink has been called once for each non-empty payload the
\* wire delivers, in order, and never for a zero-length message, which adds
\* nothing to the count; the messages after a zero-length one are delivered.
C23_DrainZeroLength ==
    (StreamDrain /\ dcl.calls > 0 /\ dcl.rcut = 0 /\ dcl.wcut = 0) =>
        /\ dcl.wlog = WholeWrites(Deliverable)
        /\ out = Flat(Deliverable)
        /\ dcl.sum = Len(Flat(Deliverable))

\* A zero-length message before a message that was delivered.
C23_Witness ==
    /\ StreamDrain
    /\ dcl.calls > 0 /\ dcl.err = Nil
    /\ dcl.rcut = 0 /\ dcl.wcut = 0
    /\ wcl.sent = <<Pay(0, 1), Pay(MaxLen, 2)>>
    /\ out = Pay(MaxLen, 2)
    /\ dcl.n = MaxLen
    /\ Len(dcl.wlog) = 1

\* The wire stops inside a frame: after its last whole frame come bytes of a
\* header or of a payload.
Truncated ==
    \A k \in 0..Len(wcl.sent) :
        Len(CanonWire(rfr.rbo, SubSeq(wcl.sent, 1, k))) # Len(pipe)

\* The bytes the sink accepted during the Write calls of log.
RECURSIVE Accepted(_)
Accepted(log) == IF log = <<>> THEN 0 ELSE Head(log).n + Accepted(Tail(log))

\* C24: progress count of WriteTo, stream and packets.  The counts returned
\* sum to the bytes the sink accepted, call after call, whatever the call
\* returns.  WriteTo returns nil only at the end of the source with no message
\* in flight; on a stream whose source was never cut short, a wire that stops
\* inside a header or a payload ends in io.ErrUnexpectedEOF and never in nil.
C24_DrainCount ==
    /\ dcl.sum = Len(out)
    /\ dcl.sum = Accepted(dcl.wlog)
    /\ dcl.n <= dcl.sum
    /\ (dcl.calls > 0 /\ dcl.err = Nil) =>
          /\ rpos = Len(pipe)
          /\ rfr.offset = 0
          /\ ~StreamDrain => dcl.src = <<EOF>>
          /\ StreamDrain => ~Truncated
    /\ (StreamDrain /\ dcl.calls > 0 /\ dcl.rcut = 0 /\ Truncated /\ OverCap = {}) =>
          dcl.err \in {ErrUnexpectedEOF} \cup Signals
    /\ (StreamDrain /\ dcl.err = ErrUnexpectedEOF) => rpos = Len(pipe)

\* The wire stopped inside a payload after a frame that was delivered.
C24_Witness ==
    /\ StreamDrain
    /\ dcl.err = ErrUnexpectedEOF
    /\ dcl.drop = 1
    /\ wcl.sent = <<Pay(1, 1), Pay(MaxLen, 2)>>
    /\ out = Pay(1, 1)
    /\ dcl.n = 1

\* Packets: the sink blocked inside a packet.
C24_WitnessPacket ==
    /\ ~StreamDrain
    /\ dcl.err = ErrWouldBlock
    /\ dcl.n = 1
    /\ out = <<Head(pipe[1])>>
    /\ Len(pipe[1]) = MaxLen

\* Write left its message unfinished: the sink holds some of its frame and
\* not all of it.
InFlight ==
    /\ wcl.sent # <<>>
    /\ 0 < Accepted(wcl.log)
    /\ Accepted(wcl.log) < Len(CanonFrame(wfr.wbo, wcl.cur))

\* C25: ReadFrom with a message of Write in flight.  When the payload fits
\* the 32KiB scratch buffer, ReadFrom resumes the message: the wire is at
\* every moment a prefix of the frame of that message followed by the frames
\* of the chunks read, and holds them whole once ReadFrom returns nil.  When
\* it does not fit, ReadFrom returns (0, io.ErrShortBuffer) and the wire stays
\* as Write left it.  No frame is ever started inside the unfinished one.
C25_FillResume ==
    (dcl.calls > 0 /\ InFlight) =>
        IF Len(wcl.cur) <= wbufSize
            THEN /\ dcl.err \in {Nil} \cup Signals
                 /\ IsPrefix(pipe, CanonWire(wfr.wbo, <<wcl.cur>> \o dcl.chunks))
                 /\ dcl.err = Nil =>
                       pipe = CanonWire(wfr.wbo, <<wcl.cur>> \o dcl.chunks)
            ELSE /\ dcl.err = ErrShortBuffer
                 /\ dcl.n = 0
                 /\ Len(pipe) = Accepted(wcl.log)
                 /\ IsPrefix(pipe, CanonFrame(wfr.wbo, wcl.cur))

\* Write left a message longer than the scratch buffer unfinished, and
\* ReadFrom on a source at its end returned (0, nil).
C25_NoGuard ==
    /\ dcl.calls > 0 /\ InFlight
    /\ wcl.cur = BigPayload
    /\ dcl.chunks = <<>> /\ dcl.src = <<>>
    /\ dcl.n = 0 /\ dcl.err = Nil
    /\ wfr.offset = Accepted(wcl.log)

\* The first header of the wire that declares more than the buffer holds.
FirstOver == CHOOSE i \in OverCap : \A j \in OverCap : i <= j

\* What C26 and C27 have in common: the call that refuses a message returns
\* 0 and writes nothing, the source read to the end of a header that declares
\* more than the buffer holds.  While no source read gave the last bytes of a
\* payload together with a signal, that header is the first of the wire over
\* the capacity, the sink holds the frames of the earlier messages and
\* nothing else, and such a message is never let through.
Refused(err) ==
    /\ fcl.err = err =>
          /\ fcl.n = 0 /\ fcl.acc = 0 /\ fcl.writes = 0
          /\ fwd.rr.length > Len(fwd.buf)
          /\ fwd.rr.offset = Len(CanonHeader(fwd.rr.rbo, fwd.rr.length))
    /\ ~fcl.rcomb =>
          /\ fcl.err = err =>
                /\ fwd.state = 0
                /\ OverCap # {}
                /\ rpos = HeaderEnd(FirstOver)
                /\ fwd.rr.length = Declared(FirstOver)
                /\ out = CanonWire(fwd.ww.wbo, SubSeq(wcl.sent, 1, FirstOver - 1))
          /\ OverCap # {} =>
                /\ rpos <= HeaderEnd(FirstOver)
                /\ IsPrefix(out, CanonWire(fwd.ww.wbo,
                                           SubSeq(wcl.sent, 1, FirstOver - 1)))
                /\ (rpos = HeaderEnd(FirstOver) /\ fcl.reads > 0) =>
                      fcl.err \in {err} \cup Signals
          /\ OverCap = {} => fcl.err # err

\* C26: read limit of the Forwarder, stream.  With a positive read limit, the
\* first message whose parsed length exceeds it makes ForwardOnce return
\* (0, ErrTooLong) with nothing written to the sink during that call and no
\* payload byte read; io.ErrShortBuffer is never returned, unless a source
\* read gave the last bytes of a payload together with a signal.
C26_ForwardLimit ==
    fwd.rr.readLimit > 0 =>
        /\ Len(fwd.buf) = fwd.rr.readLimit
        /\ Refused(ErrTooLong)
        /\ ~fcl.rcomb => fcl.err # ErrShortBuffer

\* Read limit MaxLen: a message within the limit was forwarded and the next
\* one refused.
C26_Witness ==
    /\ fwd.rr.readLimit = MaxLen
    /\ fcl.err = ErrTooLong
    /\ wcl.sent = <<Pay(MaxLen, 1), LongPayload(2)>>
    /\ out = CanonFrame(BigEndian, Pay(MaxLen, 1))

\* C27: capacity of the Forwarder, stream.  Without a read limit the buffer
\* has 64KiB, and the first message whose parsed length exceeds it makes
\* ForwardOnce return (0, io.ErrShortBuffer), never ErrTooLong, with nothing
\* written to the sink during that call and no payload byte read.
C27_ForwardCapacity ==
    fwd.rr.readLimit = 0 =>
        /\ Len(fwd.buf) = 64 * 1024
        /\ Refused(ErrShortBuffer)
        /\ fcl.err # ErrTooLong

\* No read limit: a header that declares 64KiB + 1 bytes was refused.
C27_Witness ==
    /\ fwd.rr.readLimit = 0
    /\ fcl.err = ErrShortBuffer
    /\ fcl.n = 0
    /\ fwd.rr.length = BigLength
    /\ rpos = Len(pipe)
    /\ out = <<>>

\* The Forwarder works on packets.
Packets == preserveBoundary(fwd.rr.rpr)

\* The frames of the first k messages of the stream.
FramesUpTo(k) == CanonWire(fwd.ww.wbo, SubSeq(wcl.sent, 1, k))

\* The messages whose frame the sink of the Forwarder holds whole.
Forwarded ==
    CHOOSE k \in 0..Len(wcl.sent) :
        /\ IsPrefix(FramesUpTo(k), out)
        /\ \A j \in (k + 1)..Len(wcl.sent) :
              FramesUpTo(j) = FramesUpTo(k) \/ ~IsPrefix(FramesUpTo(j), out)

\* The message in flight on a stream: where the source stands in its frame
\* and what the sink holds of it.
InFrame(lo, hi) ==
    /\ Forwarded < Len(wcl.sent)
    /\ rpos >= Len(FramesUpTo(Forwarded)) + lo
    /\ rpos <= Len(FramesUpTo(Forwarded)) + hi

C28_WitnessEmpty ==
    /\ ~Packets
    /\ fcl.state0 = 0 /\ fwd.state = 2 /\ fwd.need = 0
    /\ wcl.sent = <<Pay(0, 1)>>
    /\ fcl.err \in Signals

\* Packets: the sink blocked in the write phase of a packet.
C28_WitnessPacket ==
    /\ Packets
    /\ fcl.state0 = 0 /\ fwd.state = 2 /\ fcl.reads = 1
    /\ fcl.err \in Signals


\* The payload length of the frame the call wrote to the end: the frame
\* had fcl.woff0 bytes on the sink and the call added fcl.acc.
FrameWritten ==
    CHOOSE len \in 0..FwdReadLimit :
        Len(CanonHeader(fwd.ww.wbo, len)) + len = fcl.woff0 + fcl.acc

\* The payload bytes among the fcl.acc bytes the sink accepted during the
\* call, for a frame with a payload of len bytes.
PayloadWritten(len) ==
    IF Packets THEN fcl.acc
    ELSE LET hdr == Len(CanonHeader(fwd.ww.wbo, len))
             before == IF fcl.woff0 > hdr THEN fcl.woff0 - hdr ELSE 0
             after == IF fcl.woff0 + fcl.acc > hdr
                          THEN fcl.woff0 + fcl.acc - hdr ELSE 0
         IN  after - before

\* C29: the count of ForwardOnce.  With nil it is the number of payload
\* bytes the sink accepted during this call, header bytes left out; with
\* ErrWouldBlock or ErrMore it is the number of bytes of the phase the call
\* stopped in: payload bytes read from the source in the read phase,
\* payload bytes the sink accepted in the write phase, 0 in the header phase.
C29_ForwardCount ==
    /\ fcl.err = Nil /\ fcl.done > 0 =>
          /\ fwd.state = 0
          /\ fcl.n = PayloadWritten(IF Packets THEN fcl.acc ELSE FrameWritten)
          /\ fcl.state0 # 2 /\ ~Packets => fcl.n = FrameWritten
          /\ fcl.n <= (IF Packets THEN fcl.acc ELSE FrameWritten)
    /\ fcl.err \in Signals =>
          /\ fwd.state = 0 => fcl.n = 0 /\ fcl.acc = 0
          /\ fwd.state = 1 =>
                /\ fcl.n = fwd.got - (IF fcl.state0 = 1 THEN fcl.got0 ELSE 0)
                /\ fcl.acc = 0
                /\ fcl.reads > 0
          /\ fwd.state = 2 => fcl.n = PayloadWritten(fwd.need)


\* A stream message written in two calls: the first call left the header and
\* part of the payload on the sink, the second wrote the rest and counted
\* less than the payload.
C29_Witness ==
    /\ ~Packets
    /\ fcl.err = Nil /\ fcl.state0 = 2
    /\ fcl.woff0 > Len(CanonHeader(fwd.ww.wbo, FrameWritten))
    /\ fcl.n > 0 /\ fcl.n < FrameWritten

\* A stream payload read in two calls, both stopped by the source: the
\* second counts the bytes it read itself.
C29_WitnessRead ==
    /\ ~Packets
    /\ fcl.err \in Signals /\ fcl.state0 = 1 /\ fwd.state = 1
    /\ fcl.got0 > 0 /\ fcl.n > 0 /\ fwd.got < fwd.need

\* A call stopped by the source inside a header it began to read counts 0.
C29_WitnessHeader ==
    /\ ~Packets
    /\ fcl.err \in Signals /\ fwd.state = 0
    /\ fcl.taken > 0 /\ fcl.n = 0


\* C30: a packet that arrives in parts.  When the source of a packet
\* Forwarder returns some bytes together with ErrWouldBlock or ErrMore, the
\* call returns that count with that signal and the bytes stay in the buffer
\* after those of the earlier parts, which are not overwritten; in the write
\* phase the buffer holds the parts of the packet in order, and that is the
\* packet the sink is handed.
C30_PacketParts ==
    Packets =>
       /\ (fwd.state = 1 /\ fcl.err \in Signals) =>
             /\ fcl.n = fcl.taken
             /\ fwd.got = fcl.got0 + fcl.n
             /\ fwd.got = Len(fcl.part)
             /\ SubSeq(fwd.buf, 1, fwd.got) = fcl.part
             /\ fcl.acc = 0
       /\ (fwd.state = 1 /\ fcl.part # <<>>) =>
             /\ rpos < Len(pipe)
             /\ fcl.part = SubSeq(pipe[rpos + 1], 1, Len(fcl.part))
       /\ (fwd.state = 2 /\ fcl.err \in Signals) =>
             /\ rpos > 0
             /\ fwd.need = Len(pipe[rpos])
             /\ SubSeq(fwd.buf, 1, fwd.need) = pipe[rpos]
       /\ fcl.wcut = 0 =>
             /\ out = SubSeq(pipe, 1, Len(out))
             /\ Len(out) = fcl.done

\* A packet came in two parts, the first with a signal, and went out whole.
C30_Witness ==
    /\ Packets
    /\ fcl.err = Nil /\ fcl.state0 = 1 /\ fcl.got0 > 0 /\ fcl.taken > 0
    /\ fcl.n = fcl.got0 + fcl.taken
    /\ fcl.rcut > 0 /\ fcl.wcut = 0
    /\ out = <<pipe[1]>>

\* The second part of a packet came with a signal too: the buffer holds both
\* parts in order.
C30_WitnessTwice ==
    /\ Packets
    /\ fcl.err \in Signals /\ fwd.state = 1 /\ fcl.state0 = 1
    /\ fcl.got0 > 0 /\ fcl.n > 0
    /\ SubSeq(fwd.buf, 1, fwd.got) = SubSeq(pipe[rpos + 1], 1, fwd.got)


\* The header size and the payload length of the message the Reader's framer
\* is in, as its header bytes give them once they are all read.
ReadHdrSize == frameHeaderLen + exLenOf(rfr)
ReadLength == ToInt(ParseLength(rfr.header, rfr.rbo, exLenOf(rfr)))

\* The header size of the message the Writer's framer is in.
WriteHdrSize == Len(CanonHeader(wfr.wbo, wfr.length))

\* The framer holds a message whose last byte it has moved.
ReadComplete ==
    rfr.offset >= ReadHdrSize /\ rfr.offset = ReadHdrSize + ReadLength
WriteComplete ==
    wfr.offset > 0 /\ wfr.offset = WriteHdrSize + wfr.length

\* The offset stays within the frame of the message in flight, and a call
\* that returned nil left offset and length at 0.
OffsetBounds ==
    /\ rfr.offset >= 0
    /\ rfr.offset < ReadHdrSize => rfr.length = 0
    /\ rfr.offset >= ReadHdrSize =>
          /\ rfr.offset <= ReadHdrSize + ReadLength
          /\ rfr.length \in {0, ReadLength}
          /\ rfr.offset > ReadHdrSize => rfr.length = ReadLength
    /\ rcl.err = Nil => rfr.offset = 0 /\ rfr.length = 0
    /\ wfr.offset >= 0
    /\ wfr.offset <= WriteHdrSize + wfr.length
    /\ wcl.err = Nil => wfr.offset = 0 /\ wfr.length = 0

\* C31: codec offset invariant.  After every Read and Write call the offset
\* is between 0 and header size + length of the message in flight, and a
\* framer seen between calls never holds a completed message: the call that
\* moved the last byte returned nil with offset and length back at 0.
C31_OffsetInvariant ==
    /\ OffsetBounds
    /\ ~ReadComplete
    /\ ~WriteComplete

\* The transport answer that leaves a completed message in the framer:
\* the last bytes of the frame came together with a signal.
LastWithSignal(log) ==
    /\ log # <<>>
    /\ log[Len(log)].n > 0
    /\ log[Len(log)].err \in Signals

\* Apart from that answer the invariant holds.
C31_SeparateSignals ==
    /\ OffsetBounds
    /\ ReadComplete => rcl.err \in Signals /\ LastWithSignal(rcl.log)
    /\ ~WriteComplete

\* Read returned the whole payload together with a signal and the framer
\* was left at the end of the frame, offset and length not reset.
C31_Held ==
    /\ ReadComplete
    /\ rfr.length > 0
    /\ rcl.err \in Signals
    /\ rcl.n = rfr.length
    /\ rfr.offset = ReadHdrSize + rfr.length

\* A message was read in two calls and one was written in two calls, each
\* framer seen inside its frame in between.
C31_Witness ==
    /\ rcl.err = Nil /\ rcl.off0 > 0 /\ rcl.n > 0 /\ rfr.offset = 0
    /\ wcl.err = Nil /\ wcl.off0 > 0 /\ wfr.offset = 0


\* The message whose frame ends where the source of the Reader stands.
SwitchMsg ==
    wcl.sent[CHOOSE j \in 1..Len(wcl.sent) :
                 Len(CanonWire(rfr.rbo, SubSeq(wcl.sent, 1, j))) = rpos]

\* Read has completed a message that WriteTo had begun: the first Read after
\* the interrupted WriteTo returned nil, the framer inside a frame when it
\* was called.
Switched ==
    /\ rcl.buf # <<>>
    /\ rcl.err0 = Nil /\ rcl.off0 > 0
    /\ rcl.err = Nil

\* The payload bytes WriteTo had read of that message.
SwitchK ==
    LET hdr == Len(CanonHeader(rfr.rbo, Len(SwitchMsg)))
    IN  IF rcl.off0 > hdr THEN rcl.off0 - hdr ELSE 0

\* C32: Read after a partial WriteTo.  When WriteTo was interrupted by a
\* signal after k payload bytes of a message had been read and the caller
\* then calls Read with a buffer of at least length bytes, Read completes
\* that message: it returns n = length - k with the remaining bytes at
\* dst[k..length), and leaves dst[0..k) and the bytes from dst[length] on
\* untouched.
C32_ReadAfterDrain ==
    /\ Switched =>
          LET m == SwitchMsg
              k == SwitchK
              dst == rcl.buf
          IN  /\ rcl.n = Len(m) - k
              /\ SubSeq(dst, k + 1, Len(m)) = SubSeq(m, k + 1, Len(m))
              /\ SubSeq(dst, 1, k) = Marked(k)
              /\ SubSeq(dst, Len(m) + 1, Len(dst)) = Marked(Len(dst) - Len(m))
              /\ rfr.offset = 0 /\ rfr.length = 0
    /\ (rcl.buf # <<>> /\ rcl.err0 = Nil /\ rcl.off0 > 0
          /\ Len(rcl.buf) >= rfr.length /\ rcl.log # <<>>
          /\ \A i \in 1..Len(rcl.log) : rcl.log[i].err = Nil) => rcl.err = Nil

\* WriteTo had read the header and one payload byte of the two-byte message
\* when its source blocked; Read returned the second byte at dst[1].
C32_Witness ==
    /\ Switched
    /\ dcl.err = ErrWouldBlock
    /\ SwitchMsg = Pay(MaxLen, 1)
    /\ SwitchK = 1
    /\ rcl.n = 1
    /\ rcl.buf = <<255, Pay(MaxLen, 1)[2]>>


\* What a packet Forwarder with a read limit keeps of a packet.
Truncated33(p) == SubSeq(p, 1, Min(Len(p), Min(Len(fwd.buf), fwd.rr.readLimit)))

\* C33: packet truncation.  A packet Forwarder with a read limit asks its
\* source for at most min(capacity, limit) bytes per Read, less the bytes
\* it already holds; ErrTooLong never comes out; a packet longer than the
\* limit is forwarded cut to its first limit bytes, the call that reads and
\* writes it returning (limit, nil).
C33_PacketTruncation ==
    (Packets /\ fwd.rr.readLimit > 0) =>
       /\ Len(fwd.buf) = fwd.rr.readLimit
       /\ fcl.reads <= 1
       /\ fcl.asked <= Min(Len(fwd.buf), fwd.rr.readLimit) - fcl.got0
       /\ fcl.reads = 1 => fcl.asked = fwd.rr.readLimit - fcl.got0
       /\ fcl.taken <= fwd.rr.readLimit
       /\ fcl.err # ErrTooLong
       /\ fwd.got <= fwd.rr.readLimit /\ fwd.need <= fwd.rr.readLimit
       /\ (fcl.err = Nil /\ fcl.done > 0 /\ fcl.state0 = 0 /\ fcl.rcut = 0) =>
             /\ rpos > 0
             /\ fcl.n = Min(Len(pipe[rpos]), fwd.rr.readLimit)
             /\ out[Len(out)] = Truncated33(pipe[rpos])
       /\ (fcl.wcut = 0 /\ fcl.rcut = 0) =>
             /\ Len(out) = fcl.done
             /\ out = [i \in 1..Len(out) |-> Truncated33(pipe[i])]

\* A packet longer than the read limit was forwarded in one call, cut to
\* the limit, and the packet after it was forwarded too.
C33_Witness ==
    /\ Packets
    /\ fwd.rr.readLimit = MaxLen
    /\ Len(pipe) = MaxMsgs
    /\ Len(pipe[1]) = MaxLen + MaxOver
    /\ fcl.err = Nil /\ fcl.n = Len(pipe[MaxMsgs])
    /\ out = <<SubSeq(pipe[1], 1, MaxLen), pipe[MaxMsgs]>>


\* C34: independence of the two directions of a ReadWriter.  Whatever the
\* order of the Read and Write calls, calls of the other direction between
\* the calls of an interrupted message included, every payload Read delivers
\* is the payload written, in order, the bytes on the wire are the canonical
\* frames of the messages written, the last one possibly unfinished, and
\* neither direction fails.
C34_Independent ==
    /\ \A i \in 1..Len(rcl.recv) :
          i <= Len(wcl.sent) /\ rcl.recv[i] = wcl.sent[i]
    /\ IsPrefix(pipe, CanonWire(wfr.wbo, wcl.sent))
    /\ wcl.err = Nil => pipe = CanonWire(wfr.wbo, wcl.sent)
    /\ wcl.err \in Signals \cup {Nil}
    /\ rcl.err \in Signals \cup {Nil}

\* A Write of a new message made between the two Reads of a message found
\* the framer inside the message being read (offset > 0) and did not emit
\* the canonical frame of its payload.
C34_Disturbed ==
    /\ wcl.err0 = Nil /\ wcl.off0 > 0
    /\ rcl.err \in Signals /\ rcl.sum > 0
    /\ Len(wcl.cur) = MaxLen
    /\ wcl.err = Nil /\ wcl.n < Len(wcl.cur)
    /\ rfr.offset = 0
    /\ pipe # CanonWire(wfr.wbo, wcl.sent)

\* Without interruption two messages went through the ReadWriter.
C34_Undisturbed ==
    /\ Interrupted = 0
    /\ Len(rcl.recv) = MaxMsgs
    /\ rcl.recv = wcl.sent


\* The bytes the first k transport reads of the last Read call returned.
RECURSIVE ReadBytes(_)
ReadBytes(k) == IF k = 0 THEN 0 ELSE ReadBytes(k - 1) + rcl.log[k].n

\* Where the frame starts that the last Read call worked on: the position
\* of the source when the call began, less the offset the framer had.
ReadFrameStart == rpos - ReadBytes(Len(rcl.log)) - rcl.off0

\* The message whose frame starts there, 0 when the wire ends there.
ReadFrameIdx ==
    IF \E j \in 1..Len(wcl.sent) :
          Len(CanonWire(rfr.rbo, SubSeq(wcl.sent, 1, j - 1))) = ReadFrameStart
        THEN CHOOSE j \in 1..Len(wcl.sent) :
                Len(CanonWire(rfr.rbo, SubSeq(wcl.sent, 1, j - 1))) = ReadFrameStart
        ELSE 0

\* The bytes that remain in the phase of a frame at offset o: the lead
\* byte, then the extended-length bytes, then the payload.
PhaseRest(o, hdr, len) ==
    IF o < frameHeaderLen THEN frameHeaderLen - o
    ELSE IF o < hdr THEN hdr - o
    ELSE hdr + len - o

\* C35: no over-read.  Every transport read of a stream Read asks for
\* exactly the bytes that remain in the current phase of the current message
\* (the lead byte, then the missing extended-length bytes, then the missing
\* payload bytes) and never for nothing; the call never takes a byte beyond
\* the frame of that message and leaves dst untouched from dst[length] on.
C35_NoOverRead ==
    rcl.log # <<>> =>
       LET j == ReadFrameIdx
       IN  IF j = 0
               THEN /\ ReadFrameStart = Len(CanonWire(rfr.rbo, wcl.sent))
                    /\ rcl.off0 = 0
                    /\ Len(rcl.log) = 1
                    /\ rcl.log[1].want = frameHeaderLen /\ rcl.log[1].n = 0
               ELSE LET len == Len(wcl.sent[j])
                        hdr == Len(CanonHeader(rfr.rbo, len))
                    IN  /\ \A i \in 1..Len(rcl.log) :
                              /\ rcl.log[i].want =
                                    PhaseRest(rcl.off0 + ReadBytes(i - 1), hdr, len)
                              /\ rcl.log[i].want > 0
                              /\ rcl.log[i].n <= rcl.log[i].want
                        /\ rpos <= ReadFrameStart + hdr + len
                        /\ SubSeq(rcl.buf, len + 1, Len(rcl.buf))
                              = Zeros(Len(rcl.buf) - Min(len, Len(rcl.buf)))

\* A message of 254 bytes was read with the next message waiting on the
\* wire: the call read the lead byte, the two extended-length bytes and the
\* payload, and stopped at the end of the frame.
C35_Witness ==
    /\ rcl.err = Nil /\ rcl.n = framePayloadMaxLen8Bits + 1
    /\ Len(rcl.log) = 3
    /\ rcl.log[1].want = 1 /\ rcl.log[2].want = 2
    /\ rcl.log[3].want = framePayloadMaxLen8Bits + 1
    /\ rpos < Len(pipe)
    /\ ReadFrameIdx = 1 /\ Len(wcl.sent) = MaxMsgs


\* ForwardOnce refused a message for its size.
SizeError == fcl.err \in {ErrShortBuffer, ErrTooLong}

\* The call after a size error: the same error with a zero count, nothing
\* read from the source, nothing written to the sink, the Forwarder as it
\* was.
StaysRefused ==
    SizeError =>
       /\ fcl'.err = fcl.err /\ fcl'.n = 0
       /\ fcl'.reads = 0 /\ fcl'.taken = 0
       /\ fcl'.writes = 0 /\ fcl'.acc = 0
       /\ fwd' = fwd /\ rpos' = rpos /\ out' = out

C36_WitnessCapacity ==
    /\ fcl.err = ErrShortBuffer /\ fwd.state = 0
    /\ fcl.rcut = 0 /\ fcl.reads = 0 /\ fcl.n = 0
    /\ fwd.rr.readLimit = 0
    /\ fwd.rr.length = BigLength


\* The Forwarder has recorded the end of its source.
EofPending == fwd.eofPending

\* One step from a state where the end of the source is recorded: the call
\* returns (0, io.EOF) and moves nothing.
StaysEnded ==
    EofPending =>
       /\ fwd' = fwd
       /\ fcl'.err = EOF /\ fcl'.n = 0
       /\ fcl'.reads = 0 /\ fcl'.taken = 0
       /\ fcl'.writes = 0 /\ fcl'.acc = 0
       /\ rpos' = rpos /\ out' = out

\* C37: end-of-stream is final for the packet Forwarder.  The flag
\* eofPending is set only in the header phase (state 0), after the last
\* packet, the one that came together with io.EOF, was written to the sink
\* whole; from then on every call of ForwardOnce returns (0, io.EOF), makes
\* no Read on the source and no Write on the sink, and leaves the Forwarder
\* as it was, the flag still set.
C37_EofFinal ==
    /\ [](EofPending =>
            /\ fwd.state = 0 /\ ~fwd.eofAfterThis
            /\ fcl.fin # <<>> /\ rpos = Len(pipe)
            /\ out # <<>> /\ out[Len(out)] = fcl.fin
            /\ fcl.writes = 0 <=> fcl.post > 0)
    /\ [][StaysEnded]_vars

\* Two calls were made after the last packet, which came with io.EOF after
\* another packet, was forwarded; the last one returned (0, io.EOF) without
\* a Read or a Write.
C37_Witness ==
    /\ EofPending /\ fcl.post = MaxPost
    /\ fcl.err = EOF /\ fcl.n = 0
    /\ fcl.reads = 0 /\ fcl.writes = 0
    /\ Len(pipe) = MaxMsgs /\ Len(out) = MaxMsgs
    /\ out[Len(out)] = fcl.fin


\* The payload bytes of the frame in flight that are on the wire.
PayloadOff == Max(wfr.offset - Len(CanonHeader(wfr.wbo, wfr.length)), 0)

\* Write is called with a message that is not the one the frame in flight
\* was begun with and has its length.
Swapped ==
    /\ wfr.offset > 0
    /\ wcl'.arg # wcl.cur
    /\ Len(wcl'.arg) = Len(wcl.cur)

\* One call of Write that resumes a frame with another message of the same
\* length.
SwapStep ==
    Swapped =>
       LET frame == CanonFrame(wfr.wbo, wcl'.arg)
           took == Len(pipe') - Len(pipe)
       IN  /\ wcl'.err \in Signals \cup {Nil}
           /\ wfr.length = Len(wcl'.arg)
           /\ pipe' = pipe \o SubSeq(frame, wfr.offset + 1, wfr.offset + took)
           /\ wcl'.err = Nil =>
                 /\ took = Len(frame) - wfr.offset
                 /\ wcl'.n = Len(wcl'.arg) - PayloadOff
                 /\ wfr'.offset = 0
                 /\ IsPrefix(Emitted, CanonFrame(wfr.wbo, wcl.cur)) =>
                       SubSeq(pipe', wcl.mark + 1, Len(pipe')) =
                           CanonHeader(wfr.wbo, Len(wcl.cur))
                           \o SubSeq(wcl.cur, 1, PayloadOff)
                           \o SubSeq(wcl'.arg, PayloadOff + 1, Len(wcl'.arg))

\* C38: the guard of a resumed Write compares lengths only.  When a frame
\* is in flight (offset > 0) and Write is called with a message of the same
\* length and other content, the call is accepted (it returns nil or the
\* signal of the transport, never io.ErrShortWrite), and what it puts on the
\* wire is the frame of the new message from the offset on: the rest of the
\* header, if any, and input[offset - header_size ..].  When it completes a
\* frame so far written from the old message, the frame on the wire is the
\* header, the old message's first offset - header_size bytes and the new
\* message's remaining bytes.
C38_LengthOnlyGuard == [][SwapStep]_vars

\* A two-byte message was interrupted after its first payload byte and
\* resumed with another two-byte message: Write returned (1, nil) and the
\* frame on the wire is neither message's.
C38_Witness ==
    /\ wcl.arg # wcl.cur /\ Len(wcl.arg) = MaxLen /\ Len(wcl.cur) = MaxLen
    /\ wcl.err = Nil /\ wcl.n = 1 /\ wcl.off0 = 2
    /\ Emitted = <<MaxLen, wcl.cur[1], wcl.arg[2]>>
    /\ Emitted # CanonFrame(wfr.wbo, wcl.cur)
    /\ Emitted # CanonFrame(wfr.wbo, wcl.arg)
    /\ wfr.offset = 0


\* The retry policy is yield (0) or sleep (a positive delay).
Blocking == rfr.retryDelay >= 0

\* A call of Read for message k + 1 is under way.
Reading(k) == rcl.pc = "reading" /\ Len(rcl.recv) = k

\* The transport holds every byte of the frame of message k + 1.
WholeAhead(k) ==
    /\ k < Len(wcl.sent)
    /\ Len(CanonWire(rfr.rbo, SubSeq(wcl.sent, 1, k + 1))) <= Len(pipe)

\* The call for message k + 1 has returned (len, nil) with the message in
\* the buffer.
GotMessage(k) ==
    /\ rcl.pc = "returned" /\ rcl.err = Nil
    /\ Len(rcl.recv) = k + 1
    /\ rcl.recv[k + 1] = wcl.sent[k + 1]
    /\ rcl.n = Len(wcl.sent[k + 1])
    /\ SubSeq(rcl.buf, 1, rcl.n) = wcl.sent[k + 1]
    /\ rfr.offset = 0

\* A call under way whose transport has answered would-block and has
\* nothing left: it answers would-block with zero progress from now on.
Starved ==
    /\ rcl.pc = "reading" /\ Blocking
    /\ rcl.stalls > 0 /\ rpos = Len(pipe)

\* A would-block with zero progress leaves a call with a blocking policy
\* where it was.
StaysInside ==
    (rcl.pc = "reading" /\ Blocking /\ rcl'.stalls > rcl.stalls) =>
        /\ rcl'.pc = "reading"
        /\ rfr'.offset = rfr.offset /\ rpos' = rpos
        /\ rcl'.buf = rcl.buf /\ rcl'.n = rcl.n

\* C39 as stated: with the yield or sleep policy, a call of Read whose
\* transport holds the whole frame and delivers it after its zero-progress
\* would-blocks returns (len, nil) with the message; a call whose transport
\* answers would-block with zero progress forever never returns.
C39_Termination ==
    /\ \A k \in 0..(MaxMsgs - 1) :
          (Reading(k) /\ Blocking /\ WholeAhead(k)) ~> GotMessage(k)
    /\ [][StaysInside /\ (Starved => Starved')]_vars

\* C39, amended: the same when the transport hands its bytes over with a nil
\* error, its would-blocks all coming with zero progress.
C39_TerminationZeroProgress ==
    /\ \A k \in 0..(MaxMsgs - 1) :
          (Reading(k) /\ Blocking /\ WholeAhead(k) /\ ~rcl.comb) ~> GotMessage(k)
    /\ [][StaysInside /\ (Starved => Starved')]_vars

\* The second message of a wire was returned by a call that met MaxWait
\* zero-progress would-blocks under a blocking policy and got its frame in
\* pieces.
C39_Witness ==
    /\ Blocking /\ ~rcl.comb
    /\ GotMessage(MaxMsgs - 1)
    /\ rcl.stalls = MaxWait /\ rcl.cuts = MaxIntr
    /\ rcl.n = MaxLen

\* A call is waiting inside a frame on a transport that has nothing left.
C39_WitnessStarved ==
    /\ Starved /\ rfr.offset > 0 /\ rcl.stalls = MaxWait

\* Under a blocking policy a call returned would-block with the bytes the
\* transport handed over together with it.
C39_WitnessSignal ==
    /\ Blocking /\ rcl.comb /\ rcl.pc = "returned"
    /\ rcl.err = ErrWouldBlock /\ rcl.n > 0

====
